---- MODULE Spec2Model ----
(***************************************************************************)
(* Model of the gurobi_solvers repository: four model builders that hand a *)
(* linear model to the Gurobi optimizer and interpret what it returns.     *)
(*   HiringScheduler            src/Solver_sonia.py                        *)
(*   NetworkOptimizer           src/Solver_mariem.py                       *)
(*   EvacuationSolver           src/solver_nour.py                         *)
(*   optimize_military_schedule src/Solver_zaineb.py                       *)
(* The optimizer itself is outside the repository: its answer (status,     *)
(* incumbent, infeasible subset) is a nondeterministic choice among the    *)
(* answers its contract allows for the model that was built.               *)
(*                                                                         *)
(* Strings that the code builds with f-strings and takes apart again with  *)
(* split("_") are sequences of atoms: an atom is either the delimiter "_"  *)
(* or a non-empty piece of text without "_".  Concatenation is \o.         *)
(***************************************************************************)
EXTENDS Integers, Sequences, FiniteSets, TLC

VARIABLES entry, pc, input, model, grb, sol, result, outcome

vars == <<entry, pc, input, model, grb, sol, result, outcome>>

\* ------------------------------------------------------------ bounds
\* Largest number of constraint names the optimizer puts in one infeasible subset.
MaxIIS == 1

\* ------------------------------------------------------------ helpers
RECURSIVE Flat(_)
Flat(ss) == IF ss = <<>> THEN <<>> ELSE Head(ss) \o Flat(Tail(ss))

RECURSIVE SumSeq(_)
SumSeq(s) == IF s = <<>> THEN 0 ELSE Head(s) + SumSeq(Tail(s))

Range(s) == {s[i] : i \in 1..Len(s)}

Min2(a, b) == IF a <= b THEN a ELSE b

Max2(a, b) == IF a >= b THEN a ELSE b

\* The sub-sequence of s at the (increasing) positions idx.
Pick(s, idx) == [i \in 1..Len(idx) |-> s[idx[i]]]

\* Increasing index sequences over 1..n of length at most k, all starting above lo.
RECURSIVE IncSeqs(_, _, _)
IncSeqs(lo, n, k) ==
    IF k = 0 THEN {<<>>}
    ELSE {<<>>} \cup UNION {{<<i>> \o r : r \in IncSeqs(i, n, k - 1)} : i \in (lo + 1)..n}

\* ------------------------------------------------------------ Python str
US == "_"

\* "_".join(parts)
RECURSIVE Join(_)
Join(parts) ==
    IF parts = <<>> THEN <<>>
    ELSE IF Len(parts) = 1 THEN parts[1]
    ELSE parts[1] \o <<US>> \o Join(Tail(parts))

\* name.split("_"): cut at every delimiter, empty pieces kept.
RECURSIVE Split(_)
Split(s) ==
    IF \A i \in 1..Len(s) : s[i] # US THEN <<s>>
    ELSE LET i == CHOOSE j \in 1..Len(s) : s[j] = US /\ \A h \in 1..(j - 1) : s[h] # US
         IN <<SubSeq(s, 1, i - 1)>> \o Split(SubSeq(s, i + 1, Len(s)))

\* name.startswith(prefix)
StartsWith(s, p) == Len(s) >= Len(p) /\ SubSeq(s, 1, Len(p)) = p

\* ------------------------------------------------------------ data.py
DAYS == << <<"Lundi">>, <<"Mardi">>, <<"Mercredi">>, <<"Jeudi">>, <<"Vendredi">>,
           <<"Samedi">>, <<"Dimanche">> >>

SHIFTS == << <<"Matin">>, <<"Garde">> >>

COMPETENCES == << <<"infirmier">>, <<"medecin">> >>

MIN_SHIFTS == 2

MAX_SHIFTS == 8

MAX_CONSEC_MATIN == 5

\* default_demand(): the same requirement every day.
default_demand ==
    [d \in Range(DAYS) |->
        [s \in Range(SHIFTS) |->
            IF s = <<"Matin">> THEN [k \in Range(COMPETENCES) |-> IF k = <<"infirmier">> THEN 3 ELSE 1]
            ELSE [k \in Range(COMPETENCES) |-> IF k = <<"infirmier">> THEN 2 ELSE 1]]]

\* default_availability(candidate_list): every candidate available every day.
default_availability(ids) == [e \in Range(ids) |-> [d \in Range(DAYS) |-> 1]]

\* ------------------------------------------------------------ Gurobi status codes
\* GRB.<NAME> as the four modules use them.  The optimizer's answers are limited to
\* the statuses these models can end in: every variable is bounded, so no model is
\* unbounded, and no cutoff, iteration, node or solution limit is ever set.
GRBStatuses ==
    {"OPTIMAL", "INFEASIBLE", "INF_OR_UNBD", "TIME_LIMIT", "INTERRUPTED", "NUMERIC",
     "SUBOPTIMAL"}

\* What model.optimize() may leave behind: a status and whether an incumbent is held
\* (SolCount > 0).  canFeas / canInfeas say whether the built model has, respectively
\* may lack, a point satisfying its constraints.
GRBAnswers(canFeas, canInfeas) ==
    {a \in [status : GRBStatuses, hasSol : BOOLEAN] :
        /\ a.status \in {"INFEASIBLE", "INF_OR_UNBD"} => ~a.hasSol /\ canInfeas
        /\ a.status \in {"OPTIMAL", "SUBOPTIMAL"} => a.hasSol
        /\ a.hasSol => canFeas}

\* ------------------------------------------------------------ the linear model
\* What addVar and addConstr put into a gurobipy Model.  A variable is known by its
\* position in the model's variable list; a linear expression is a sequence of
\* <<coefficient, variable>> terms, one per summand the code writes (a variable
\* summed twice appears twice).  Fractional coefficients (0.8, 0.7, 0.1/100) are
\* cleared by multiplying the whole row, so every number stays an integer.
\* Continuous flows are enumerated on the integer grid; the data are integers.
Var(name, vtype, lb, ub) ==
    [name |-> name, vtype |-> vtype, lb |-> lb, ub |-> ub, hasUb |-> TRUE]

\* addVar without ub: the variable has no upper bound of its own.
VarNoUb(name, vtype, lb) ==
    [name |-> name, vtype |-> vtype, lb |-> lb, ub |-> lb, hasUb |-> FALSE]

Lin(name, terms, rel, rhs) == [name |-> name, terms |-> terms, rel |-> rel, rhs |-> rhs]

EmptyModel == [vars |-> <<>>, constrs |-> <<>>, obj |-> [terms |-> <<>>, sense |-> "min"]]

\* The value of a linear expression under the assignment a (a value per variable).
Eval(terms, a) == SumSeq([i \in 1..Len(terms) |-> terms[i][1] * a[terms[i][2]]])

Sat(c, a) ==
    LET l == Eval(c.terms, a)
    IN CASE c.rel = "<=" -> l <= c.rhs
         [] c.rel = ">=" -> l >= c.rhs
         [] c.rel = "==" -> l = c.rhs

\* The variables some constraint or the objective mentions.
Mentioned(m) ==
    UNION {{c.terms[i][2] : i \in 1..Len(c.terms)} : c \in Range(m.constrs)}
      \cup {m.obj.terms[i][2] : i \in 1..Len(m.obj.terms)}

\* The values enumerated for variable i: its bounds, and lb..hi for a variable
\* without upper bound, hi being the largest value the constraints of the model let
\* such a variable take.  A variable nothing mentions is free and never read; it is
\* kept at its lower bound.
Dom(m, i, hi) ==
    IF i \notin Mentioned(m) THEN {m.vars[i].lb}
    ELSE IF m.vars[i].hasUb THEN m.vars[i].lb .. m.vars[i].ub
    ELSE m.vars[i].lb .. hi

RECURSIVE Product(_)
Product(doms) ==
    IF doms = <<>> THEN {<<>>}
    ELSE LET rest == Product(Tail(doms))
         IN UNION {{<<v>> \o r : r \in rest} : v \in Head(doms)}

\* Every assignment within the variables' bounds that satisfies every constraint.
Feasible(m, hi) ==
    {a \in Product([i \in 1..Len(m.vars) |-> Dom(m, i, hi)]) :
        \A k \in 1..Len(m.constrs) : Sat(m.constrs[k], a)}

\* The same set as Feasible(m, hi), found depth first: the variables are given
\* values in the order of the permutation order, and a branch is left as soon as
\* a constraint whose variables all have their value is violated.  doms[i] are the
\* values of variable i and last[k] the constraints whose variables are all among
\* order[1..k] and include order[k].
RECURSIVE Extend(_, _, _, _, _)
Extend(doms, last, order, k, a) ==
    IF k > Len(order) THEN {a}
    ELSE LET set(v) == [i \in 1..Len(a) |-> IF i = order[k] THEN v ELSE a[i]]
         IN UNION {Extend(doms, last, order, k + 1, set(v))
                   : v \in {w \in doms[order[k]] : \A c \in last[k] : Sat(c, set(w))}}

FeasibleSearch(m, hi, order) ==
    LET n == Len(m.vars)
        doms == [i \in 1..n |-> Dom(m, i, hi)]
        rank == [i \in 1..n |-> CHOOSE k \in 1..n : order[k] = i]
        top(c) == IF c.terms = <<>> THEN 0
                  ELSE CHOOSE k \in 1..n :
                         /\ \E j \in 1..Len(c.terms) : rank[c.terms[j][2]] = k
                         /\ \A j \in 1..Len(c.terms) : rank[c.terms[j][2]] <= k
        tops == [c \in Range(m.constrs) |-> top(c)]
        last == [k \in 0..n |-> {c \in Range(m.constrs) : tops[c] = k}]
        start == [i \in 1..n |-> m.vars[i].lb]
    IN IF \E c \in last[0] : ~Sat(c, start) THEN {} ELSE Extend(doms, last, order, 1, start)

ObjVal(m, a) == Eval(m.obj.terms, a)

\* The feasible assignments no other feasible assignment beats.
Optimal(m, F) ==
    {a \in F : \A b \in F : IF m.obj.sense = "min" THEN ObjVal(m, a) <= ObjVal(m, b)
                             ELSE ObjVal(m, a) >= ObjVal(m, b)}

\* The incumbents the optimizer may hold for answer ans: an optimal point after
\* OPTIMAL, any feasible point after another status, none without a solution.
Incumbents(m, F, ans) ==
    IF ~ans.hasSol THEN {<<>>}
    ELSE IF ans.status = "OPTIMAL" THEN Optimal(m, F) ELSE F

\* ------------------------------------------------------------ HiringScheduler
\* A constraint handed to m.addConstr: its category, the entity keys its name is
\* built from (in the order the f-string uses them) and the name itself.
Constr(cat, keys, name) == [cat |-> cat, keys |-> keys, name |-> name]

\* The candidate ids, in candidate order (self.ids).
ids(inp) == [i \in 1..Len(inp.candidates) |-> inp.candidates[i].id]

\* self.demand[d][s].get(k, 0)
req(inp, d, s, k) == inp.demand[d][s][k]

\* self.avail.get(e, {}).get(d, 1)
availOf(inp, e, d) ==
    IF e \in DOMAIN inp.avail /\ d \in DOMAIN inp.avail[e] THEN inp.avail[e][d] ELSE 1

cover_constrs(inp) ==
    Flat([di \in 1..Len(DAYS) |->
      Flat([si \in 1..Len(SHIFTS) |->
        Flat([ki \in 1..Len(COMPETENCES) |->
          LET d == DAYS[di]
              s == SHIFTS[si]
              k == COMPETENCES[ki]
          IN IF req(inp, d, s, k) > 0
             THEN <<Constr("cover", <<d, s, k>>,
                           <<"cover", US>> \o d \o <<US>> \o s \o <<US>> \o k)>>
             ELSE <<>>])])])

link_constrs(inp) ==
    LET E == ids(inp)
    IN Flat([ei \in 1..Len(E) |->
         Flat([di \in 1..Len(DAYS) |->
           [si \in 1..Len(SHIFTS) |->
             Constr("link", <<E[ei], DAYS[di], SHIFTS[si]>>,
                    <<"link", US>> \o E[ei] \o <<US>> \o DAYS[di] \o <<US>> \o SHIFTS[si])]])])

unavailable_constrs(inp) ==
    LET E == ids(inp)
    IN Flat([ei \in 1..Len(E) |->
         Flat([di \in 1..Len(DAYS) |->
           Flat([si \in 1..Len(SHIFTS) |->
             IF availOf(inp, E[ei], DAYS[di]) = 0
             THEN <<Constr("unavailable", <<E[ei], DAYS[di], SHIFTS[si]>>,
                           <<"unavailable", US>> \o E[ei] \o <<US>> \o DAYS[di]
                               \o <<US>> \o SHIFTS[si])>>
             ELSE <<>>])])])

one_per_day_constrs(inp) ==
    LET E == ids(inp)
    IN Flat([ei \in 1..Len(E) |->
         [di \in 1..Len(DAYS) |->
           Constr("one_per_day", <<E[ei], DAYS[di]>>,
                  <<"one", US, "per", US, "day", US>> \o E[ei] \o <<US>> \o DAYS[di])]])

rest_guard_matin_constrs(inp) ==
    LET E == ids(inp)
    IN Flat([ei \in 1..Len(E) |->
         [i \in 1..(Len(DAYS) - 1) |->
           Constr("rest_guard_matin", <<E[ei], DAYS[i], DAYS[i + 1]>>,
                  <<"rest", US, "guard", US, "matin", US>> \o E[ei] \o <<US>> \o DAYS[i]
                      \o <<US>> \o DAYS[i + 1])]])

\* The sliding window of spacing_garde (solve's local "window").
window == 3

\* One constraint per candidate and per window of winLen consecutive days; the
\* name carries the candidate and "_".join of the window's days.
window_constrs(inp, cat, prefix, winLen) ==
    LET E == ids(inp)
    IN Flat([ei \in 1..Len(E) |->
         [start \in 1..Max2(0, Len(DAYS) - winLen + 1) |->
           LET days == SubSeq(DAYS, start, start + winLen - 1)
           IN Constr(cat, <<E[ei]>> \o days, prefix \o E[ei] \o <<US>> \o Join(days))]])

spacing_garde_constrs(inp) ==
    window_constrs(inp, "spacing_garde", <<"spacing", US, "garde", US>>, window)

max_matin_seq_constrs(inp) ==
    window_constrs(inp, "max_matin_seq", <<"max", US, "matin", US, "seq", US>>,
                   MAX_CONSEC_MATIN + 1)

total_constrs(inp) ==
    LET E == ids(inp)
    IN Flat([ei \in 1..Len(E) |->
         << Constr("max_total", <<E[ei]>>, <<"max", US, "total", US>> \o E[ei]),
            Constr("min_total", <<E[ei]>>, <<"min", US, "total", US>> \o E[ei]) >>])

\* Every constraint solve() adds, in the order of m.getConstrs().
HiringConstrs(inp) ==
    cover_constrs(inp) \o link_constrs(inp) \o unavailable_constrs(inp)
      \o one_per_day_constrs(inp) \o rest_guard_matin_constrs(inp)
      \o spacing_garde_constrs(inp) \o max_matin_seq_constrs(inp) \o total_constrs(inp)

\* A rendered message: the sentence (named by its opening words) and the strings
\* interpolated into it, in order.
Msg(tmpl, args) == [tmpl |-> tmpl, args |-> args]

\* parts[-1] of the non-empty list parts
Last(parts) == parts[Len(parts)]

\* explain_iis, one name.
explain_name(name) ==
    LET parts == Split(name)
        n == Len(parts)
    IN IF StartsWith(name, <<"cover", US>>) /\ n >= 4
         THEN Msg("Sous-effectif", <<parts[4], parts[2], parts[3]>>)
       ELSE IF StartsWith(name, <<"unavailable", US>>) /\ n >= 4
         THEN Msg("Indispo", <<parts[2], parts[3], parts[4]>>)
       ELSE IF StartsWith(name, <<"one", US, "per", US, "day", US>>) /\ n >= 3
         THEN Msg("Conflit", <<parts[2], parts[3]>>)
       ELSE IF StartsWith(name, <<"rest", US, "guard", US, "matin", US>>) /\ n >= 6
         THEN Msg("Repos insuffisant", <<parts[4], parts[5]>>)
       ELSE IF StartsWith(name, <<"spacing", US, "garde", US>>) /\ n >= 5
         THEN Msg("Spacing gardes", <<parts[3], parts[4], IF n > 5 THEN Last(parts) ELSE parts[5]>>)
       ELSE IF StartsWith(name, <<"max", US, "matin", US, "seq", US>>) /\ n >= 5
         THEN Msg("Max Matin", <<parts[3], parts[4], IF n > 5 THEN Last(parts) ELSE parts[5]>>)
       ELSE IF StartsWith(name, <<"min", US, "total", US>>) /\ n >= 2
         THEN Msg("Min shifts impossible", <<parts[2]>>)
       ELSE IF StartsWith(name, <<"max", US, "total", US>>) /\ n >= 2
         THEN Msg("Max shifts violee", <<parts[2]>>)
       ELSE Msg("Contrainte en conflit", <<name>>)

\* explain_iis(iis): one message per name, in order.
explain_iis(iis) == [i \in 1..Len(iis) |-> explain_name(iis[i])]

\* status_map.get(m.status, f"other({m.status})"); the number printed is GRB's code.
status_map(st) ==
    CASE st = "OPTIMAL" -> "optimal"
      [] st = "SUBOPTIMAL" -> "suboptimal"
      [] st = "TIME_LIMIT" -> "time_limit"
      [] st = "INFEASIBLE" -> "infeasible"
      [] st = "INF_OR_UNBD" -> "infeasible_or_unbounded"
      [] st = "INTERRUPTED" -> "other(11)"
      [] st = "NUMERIC" -> "other(12)"
      [] OTHER -> "other(?)"

\* Line 83 without its second disjunct.
diagnosed_infeasible_only(st) == st = "INFEASIBLE"

\* The test of line 83: the statuses after which solve() runs the diagnostic step.
diagnosed(st) == st = "INFEASIBLE" \/ st = "INF_OR_UNBD"

\* The test of line 91 (negated): the statuses after which solve() reads X.
extracted(st) == st \in {"OPTIMAL", "SUBOPTIMAL", "TIME_LIMIT"}

\* What m.computeIIS() and the read of IISConstr may do: raise, or mark a subset
\* of the constraints (here at most MaxIIS of them).
IISAnswers(constrs) ==
    {[raised |-> TRUE, idx |-> <<>>]}
      \cup {[raised |-> FALSE, idx |-> ix] : ix \in IncSeqs(0, Len(constrs), MaxIIS)}

\* Lines 83-89 with the handler dropped: the error of computeIIS propagates.
diagnose_nocatch(st, constrs, ans) ==
    IF ans.raised
    THEN [outcome |-> "raised", result |-> <<>>]
    ELSE LET iis == [i \in 1..Len(ans.idx) |-> constrs[ans.idx[i]].name]
         IN [outcome |-> "returned",
             result |-> [status |-> status_map(st), iis |-> iis, messages |-> explain_iis(iis)]]

\* Lines 83-89: try computeIIS, "except Exception: iis = []", return the explanation.
diagnose(st, constrs, ans) ==
    LET iis == IF ans.raised THEN <<>>
               ELSE [i \in 1..Len(ans.idx) |-> constrs[ans.idx[i]].name]
    IN [outcome |-> "returned",
        result |-> [status |-> status_map(st), iis |-> iis, messages |-> explain_iis(iis)]]

\* The candidate record of id e: next(c for c in self.candidates if c["id"] == e)
candidate(inp, e) ==
    LET i == CHOOSE j \in 1..Len(inp.candidates) :
                 inp.candidates[j].id = e /\ \A h \in 1..(j - 1) : inp.candidates[h].id # e
    IN inp.candidates[i]

\* ---- the model m of solve(): variables, rows and objective
\* Lines 22-23: x[e] per entry of self.ids, then y[(e, d, s)] per product(E, D, S);
\* the dictionaries keep, for an id listed twice, the last variable created.
idPos(inp, e) ==
    CHOOSE i \in 1..Len(inp.candidates) :
        inp.candidates[i].id = e /\ \A h \in (i + 1)..Len(inp.candidates) : inp.candidates[h].id # e

dayPos(d) == CHOOSE i \in 1..Len(DAYS) : DAYS[i] = d

shiftPos(s) == CHOOSE i \in 1..Len(SHIFTS) : SHIFTS[i] = s

xIdx(inp, e) == idPos(inp, e)

yIdx(inp, e, d, s) ==
    Len(inp.candidates)
      + ((idPos(inp, e) - 1) * Len(DAYS) + (dayPos(d) - 1)) * Len(SHIFTS) + shiftPos(s)

hiring_vars(inp) ==
    LET E == ids(inp)
    IN [ei \in 1..Len(E) |-> Var(<<"x", E[ei]>>, "B", 0, 1)]
         \o Flat([ei \in 1..Len(E) |->
              Flat([di \in 1..Len(DAYS) |->
                [si \in 1..Len(SHIFTS) |-> Var(<<"y", E[ei], DAYS[di], SHIFTS[si]>>, "B", 0, 1)]])])

\* quicksum(y[(e, d, s)] for d in days) for one candidate and one shift
ySum(inp, e, days, s) == [i \in 1..Len(days) |-> <<1, yIdx(inp, e, days[i], s)>>]

\* quicksum(y[(e, d, s)] for d in D for s in S)
yTotal(inp, e) ==
    Flat([di \in 1..Len(DAYS) |-> [si \in 1..Len(SHIFTS) |-> <<1, yIdx(inp, e, DAYS[di], SHIFTS[si])>>]])

\* Line 45 with the bound 2 in place of 1.
one_per_day_row_two(inp, c) ==
    Lin(c.name, [si \in 1..Len(SHIFTS) |-> <<1, yIdx(inp, c.keys[1], c.keys[2], SHIFTS[si])>>], "<=", 2)

\* Lines 45-46: quicksum(y[(e, d, s)] for s in S) <= 1.
one_per_day_row(inp, c) ==
    Lin(c.name, [si \in 1..Len(SHIFTS) |-> <<1, yIdx(inp, c.keys[1], c.keys[2], SHIFTS[si])>>], "<=", 1)

\* The row addConstr receives for the named constraint c (lines 28-71).
hiring_row(inp, c) ==
    LET E == ids(inp)
        k == c.keys
    IN CASE c.cat = "cover" ->
              Lin(c.name, [ei \in 1..Len(E) |->
                             <<candidate(inp, E[ei]).qual[k[3]], yIdx(inp, E[ei], k[1], k[2])>>],
                  ">=", req(inp, k[1], k[2], k[3]))
         [] c.cat = "link" ->
              Lin(c.name, << <<1, yIdx(inp, k[1], k[2], k[3])>>, <<-1, xIdx(inp, k[1])>> >>, "<=", 0)
         [] c.cat = "unavailable" ->
              Lin(c.name, << <<1, yIdx(inp, k[1], k[2], k[3])>> >>, "==", 0)
         [] c.cat = "one_per_day" -> one_per_day_row(inp, c)
         [] c.cat = "rest_guard_matin" ->
              Lin(c.name, << <<1, yIdx(inp, k[1], k[2], <<"Garde">>)>>,
                             <<1, yIdx(inp, k[1], k[3], <<"Matin">>)>> >>, "<=", 1)
         [] c.cat = "spacing_garde" ->
              Lin(c.name, ySum(inp, k[1], Tail(k), <<"Garde">>), "<=", 1)
         [] c.cat = "max_matin_seq" ->
              Lin(c.name, ySum(inp, k[1], Tail(k), <<"Matin">>), "<=", MAX_CONSEC_MATIN)
         [] c.cat = "max_total" ->
              Lin(c.name, yTotal(inp, k[1]) \o << <<-MAX_SHIFTS, xIdx(inp, k[1])>> >>, "<=", 0)
         [] c.cat = "min_total" ->
              Lin(c.name, yTotal(inp, k[1]) \o << <<-MIN_SHIFTS, xIdx(inp, k[1])>> >>, ">=", 0)

\* Line 26: minimise the hiring cost of the candidates hired.
hiring_objective(inp) ==
    LET E == ids(inp)
    IN [sense |-> "min",
        terms |-> [ei \in 1..Len(E) |-> <<candidate(inp, E[ei]).hire_cost, xIdx(inp, E[ei])>>]]

\* The order in which the search gives the variables of hiring_model their values:
\* every x, then day by day the y of each candidate.
hiring_order(inp) ==
    LET E == ids(inp)
    IN [ei \in 1..Len(E) |-> ei]
         \o Flat([di \in 1..Len(DAYS) |->
              Flat([ei \in 1..Len(E) |->
                [si \in 1..Len(SHIFTS) |->
                   Len(E) + ((ei - 1) * Len(DAYS) + (di - 1)) * Len(SHIFTS) + si]])])

hiring_model(inp) ==
    LET cs == HiringConstrs(inp)
    IN [vars |-> hiring_vars(inp),
        constrs |-> [i \in 1..Len(cs) |-> hiring_row(inp, cs[i])],
        obj |-> hiring_objective(inp)]

\* Lines 94-108: the hired list, the assignment and the head counts read from the
\* incumbent a.  Reading X without an incumbent raises (GurobiError).  assigns and
\* emp_assignments are defaultdicts: a key nothing was appended to reads as [].
hiring_extract(inp, m, st, hasSol, a) ==
    IF ~hasSol THEN [outcome |-> "raised", result |-> <<>>]
    ELSE LET E == ids(inp)
             hiredIdx == {i \in 1..Len(E) : a[xIdx(inp, E[i])] = 1}
             hired == Flat([i \in 1..Len(E) |-> IF i \in hiredIdx THEN <<E[i]>> ELSE <<>>])
             on(e, d, s) == a[yIdx(inp, e, d, s)] = 1
             count(k) == Cardinality({i \in hiredIdx : candidate(inp, E[i]).qual[k] = 1})
         IN [outcome |-> "returned",
             result |-> [status |-> status_map(st), hired |-> hired,
                         assigns |-> [ds \in Range(DAYS) \X Range(SHIFTS) |->
                                        Flat([i \in 1..Len(E) |->
                                               IF on(E[i], ds[1], ds[2]) THEN <<E[i]>> ELSE <<>>])],
                         emp_assignments |-> [e \in Range(E) |->
                                        Flat([i \in 1..Len(E) |-> IF E[i] # e THEN <<>> ELSE
                                          Flat([di \in 1..Len(DAYS) |->
                                            Flat([si \in 1..Len(SHIFTS) |->
                                              IF on(e, DAYS[di], SHIFTS[si])
                                              THEN << <<DAYS[di], SHIFTS[si]>> >> ELSE <<>>])])])],
                         objective |-> ObjVal(m, a),
                         total_infirmiers |-> count(<<"infirmier">>),
                         total_medecins |-> count(<<"medecin">>)]]

\* ---- inputs of HiringScheduler
Inf(id) == [id |-> id, qual |-> [k \in Range(COMPETENCES) |-> IF k = <<"infirmier">> THEN 1 ELSE 0],
            hire_cost |-> 1010]

Med(id) == [id |-> id, qual |-> [k \in Range(COMPETENCES) |-> IF k = <<"medecin">> THEN 1 ELSE 0],
            hire_cost |-> 2020]

HiringCandidates ==
    { <<Inf(<<"I1">>)>>, <<Inf(<<"I1">>), Med(<<"M1">>)>>, <<Inf(<<"I", US, "1">>)>> }

HiringDemands ==
    { default_demand,
      [d \in Range(DAYS) |-> [s \in Range(SHIFTS) |->
          [k \in Range(COMPETENCES) |-> IF k = <<"infirmier">> THEN 1 ELSE 0]]] }

HiringAvails(cands) ==
    LET E == [i \in 1..Len(cands) |-> cands[i].id]
    IN { default_availability(E),
         <<>>,
         [e \in {E[1]} |-> [d \in {DAYS[1]} |-> 0]],
         [e \in {E[1]} |-> [d \in Range(DAYS) |-> 0]] }

\* Instances the constraints can be satisfied on: few open days, a small demand.
demand_on(slots) ==
    [d \in Range(DAYS) |-> [s \in Range(SHIFTS) |-> [k \in Range(COMPETENCES) |->
        IF <<d, s, k>> \in slots THEN 1 ELSE 0]]]

open_days(E, days) ==
    [e \in Range(E) |-> [d \in Range(DAYS) |-> IF d \in days THEN 1 ELSE 0]]

HiringScenarios ==
    { [candidates |-> <<Inf(<<"I1">>)>>,
       demand |-> demand_on({<<DAYS[5], SHIFTS[1], COMPETENCES[1]>>,
                             <<DAYS[6], SHIFTS[1], COMPETENCES[1]>>}),
       avail |-> open_days(<< <<"I1">> >>, {DAYS[5], DAYS[6], DAYS[7]})],
      [candidates |-> <<Inf(<<"I1">>), Med(<<"M1">>)>>,
       demand |-> demand_on({}),
       avail |-> open_days(<< <<"I1">>, <<"M1">> >>, {DAYS[5], DAYS[6], DAYS[7]})],
      [candidates |-> <<Inf(<<"I1">>), Med(<<"M1">>)>>,
       demand |-> demand_on({<<DAYS[6], SHIFTS[2], COMPETENCES[2]>>}),
       avail |-> open_days(<< <<"I1">>, <<"M1">> >>, {DAYS[6], DAYS[7]})] }

HiringInputs ==
    HiringScenarios
      \cup UNION {{[candidates |-> c, demand |-> dm, avail |-> av] : dm \in HiringDemands,
                                                                    av \in HiringAvails(c)}
                  : c \in HiringCandidates}

\* ---- HiringScheduler.solve, cut at its calls into the optimizer
HiringInit ==
    /\ entry = "hiring"
    /\ input \in HiringInputs
    /\ pc = "ready"
    /\ model = [constrs |-> <<>>, iisCalls |-> 0, model |-> EmptyModel]
    /\ grb = [status |-> "LOADED", hasSol |-> FALSE]
    /\ sol = <<>>
    /\ result = <<>>
    /\ outcome = "none"

\* Lines 15-71: variables, objective and every named constraint.
HS_build ==
    /\ entry = "hiring" /\ pc = "ready"
    /\ model' = [model EXCEPT !.constrs = HiringConstrs(input), !.model = hiring_model(input)]
    /\ pc' = "built"
    /\ UNCHANGED <<entry, input, grb, sol, result, outcome>>

\* Line 73: m.optimize().
HS_optimize ==
    /\ entry = "hiring" /\ pc = "built"
    /\ \E F \in {FeasibleSearch(model.model, 0, hiring_order(input))} :
         \E ans \in GRBAnswers(F # {}, F = {}) :
           /\ grb' = ans
           /\ sol' \in {[x |-> a] : a \in Incumbents(model.model, F, ans)}
    /\ pc' = "optimized"
    /\ UNCHANGED <<entry, input, model, result, outcome>>

\* Lines 83-89: the diagnostic step and its return.
HS_diagnose ==
    /\ entry = "hiring" /\ pc = "optimized"
    /\ diagnosed(grb.status)
    /\ \E ans \in IISAnswers(model.constrs) :
         LET r == diagnose(grb.status, model.constrs, ans)
         IN /\ sol' = [iis |-> ans]
            /\ result' = r.result
            /\ outcome' = r.outcome
    /\ model' = [model EXCEPT !.iisCalls = @ + 1]
    /\ pc' = "done"
    /\ UNCHANGED <<entry, input, grb>>

\* Lines 91-92: any other status without an assignment to read.
HS_other ==
    /\ entry = "hiring" /\ pc = "optimized"
    /\ ~diagnosed(grb.status) /\ ~extracted(grb.status)
    /\ result' = [status |-> status_map(grb.status)]
    /\ outcome' = "returned"
    /\ pc' = "done"
    /\ UNCHANGED <<entry, input, model, grb, sol>>

\* Lines 94-108: read the incumbent and return the assignment.
HS_extract ==
    /\ entry = "hiring" /\ pc = "optimized"
    /\ ~diagnosed(grb.status) /\ extracted(grb.status)
    /\ LET r == hiring_extract(input, model.model, grb.status, grb.hasSol, sol.x)
       IN result' = r.result /\ outcome' = r.outcome
    /\ pc' = "done"
    /\ UNCHANGED <<entry, input, model, grb, sol>>

HiringNext == HS_build \/ HS_optimize \/ HS_diagnose \/ HS_other \/ HS_extract

SpecHiring == HiringInit /\ [][HiringNext]_vars

\* ------------------------------------------------------------ claims: HiringScheduler
GenericMsg == "Contrainte en conflit"

\* No key of constraint c holds the delimiter.
PlainKeys(c) == \A i \in 1..Len(c.keys) : US \notin Range(c.keys[i])

\* The entities a message about constraint c has to name, in the order the sentence
\* of its category interpolates them.
Entities(c) ==
    CASE c.cat = "cover" -> <<c.keys[3], c.keys[1], c.keys[2]>>
      [] c.cat = "unavailable" -> c.keys
      [] c.cat = "one_per_day" -> c.keys
      [] c.cat = "rest_guard_matin" -> <<c.keys[1], c.keys[2]>>
      [] c.cat \in {"spacing_garde", "max_matin_seq"} -> <<c.keys[1], c.keys[2], Last(c.keys)>>
      [] c.cat \in {"min_total", "max_total"} -> c.keys

\* C1: every constraint name solve() adds to the model is explained by a
\* category-specific message, never by the generic fallback.
C1_RoundTrip ==
    entry = "hiring" =>
        \A i \in 1..Len(model.constrs) : explain_name(model.constrs[i].name).tmpl # GenericMsg

\* C2: for every constraint built from keys without "_" (other than link_, which has
\* no sentence of its own, see C1), the message names exactly the candidate, day(s),
\* shift and skill the name was built from.
C2_NamesEntities ==
    entry = "hiring" =>
        \A i \in 1..Len(model.constrs) :
            LET c == model.constrs[i]
            IN (PlainKeys(c) /\ c.cat # "link") => explain_name(c.name).args = Entities(c)

C7_DiagnosisFailureRecovered ==
    (entry = "hiring" /\ pc = "done" /\ "iis" \in DOMAIN sol /\ sol.iis.raised) =>
        /\ outcome = "returned"
        /\ DOMAIN result = {"status", "iis", "messages"}
        /\ grb.status = "INFEASIBLE" => result.status = "infeasible"
        /\ result.status \in {"infeasible", "infeasible_or_unbounded"}
        /\ result.iis = <<>> /\ result.messages = <<>>

\* C7 witness: a finished call on an INFEASIBLE model whose computeIIS raised and
\* which returned all the same.
C7_Witness ==
    /\ entry = "hiring" /\ pc = "done" /\ grb.status = "INFEASIBLE"
    /\ "iis" \in DOMAIN sol /\ sol.iis.raised /\ outcome = "returned"

\* C11: in every result solve() returns with an assignment, no candidate has two
\* shifts on one day, every hired candidate has between MIN_SHIFTS and MAX_SHIFTS
\* shifts, and a candidate who is not hired has none.
C11_ScheduleSafe ==
    (entry = "hiring" /\ pc = "done" /\ outcome = "returned" /\ "assigns" \in DOMAIN result) =>
        \A e \in Range(ids(input)) :
            LET mine == result.emp_assignments[e]
            IN /\ \A i, j \in 1..Len(mine) : i # j => mine[i][1] # mine[j][1]
               /\ \A d \in Range(DAYS) :
                    Cardinality({s \in Range(SHIFTS) : e \in Range(result.assigns[<<d, s>>])}) <= 1
               /\ e \in Range(result.hired) => MIN_SHIFTS <= Len(mine) /\ Len(mine) <= MAX_SHIFTS
               /\ e \notin Range(result.hired) =>
                    /\ mine = <<>>
                    /\ \A ds \in DOMAIN result.assigns : e \notin Range(result.assigns[ds])

\* C11 witness: a returned assignment over two candidates, one hired with three
\* shifts and one not hired.
C11_Witness ==
    /\ entry = "hiring" /\ pc = "done" /\ outcome = "returned" /\ "assigns" \in DOMAIN result
    /\ Len(ids(input)) = 2 /\ Len(result.hired) = 1
    /\ Len(result.emp_assignments[result.hired[1]]) = 3

\* ------------------------------------------------------------ NetworkOptimizer
\* An edge of the input list: (source, dest, capacity, cost, latency).
Edge(u, v, cap, cost, lat) == [source |-> u, dest |-> v, capacity |-> cap, cost |-> cost, latency |-> lat]

Key(e) == <<e.source, e.dest>>

\* Lines 37-43: the dictionary keyed by (source, dest).  A pair met again keeps its
\* place in the key order and takes the later edge's data.
RECURSIVE edge_dict_keys(_)
edge_dict_keys(edges) ==
    IF edges = <<>> THEN <<>>
    ELSE LET init == edge_dict_keys(SubSeq(edges, 1, Len(edges) - 1))
             k == Key(edges[Len(edges)])
         IN IF k \in Range(init) THEN init ELSE Append(init, k)

edge_dict_data(edges) ==
    [k \in {Key(edges[i]) : i \in 1..Len(edges)} |->
        LET i == CHOOSE j \in 1..Len(edges) :
                     Key(edges[j]) = k /\ \A h \in (j + 1)..Len(edges) : Key(edges[h]) # k
        IN [capacity |-> edges[i].capacity, cost |-> edges[i].cost, latency |-> edges[i].latency]]

\* The position of key k in the key sequence ks.
PosOf(ks, k) == CHOOSE i \in 1..Len(ks) : ks[i] = k

\* quicksum(coef * var[k] for k in keys if test(k)) as terms
Terms(ks, varAt, Test(_), coef) ==
    Flat([i \in 1..Len(ks) |-> IF Test(ks[i]) THEN << <<coef, varAt[ks[i]]>> >> ELSE <<>>])

\* Lines 61-77: a flow variable in [0, capacity] and a binary per key, appended to
\* the variables the model already holds.
network_vars(self) ==
    LET ks == self.edge_keys
    IN [i \in 1..Len(ks) |-> Var(<<"flow", ks[i][1], ks[i][2]>>, "C", 0, self.edge_dict[ks[i]].capacity)]
         \o [i \in 1..Len(ks) |-> Var(<<"used", ks[i][1], ks[i][2]>>, "B", 0, 1)]

\* Lines 83-115: one balance row per node of range(num_nodes).
flow_balance(self, fv) ==
    LET ks == self.edge_keys
        inflow(node, c) == Terms(ks, fv, LAMBDA k : k[2] = node, c)
        outflow(node, c) == Terms(ks, fv, LAMBDA k : k[1] = node, c)
    IN [n \in 1..Max2(0, self.num_nodes) |->
         LET node == n - 1
         IN IF node = self.source
              THEN Lin(<<"flow_balance_source", node>>, outflow(node, 1) \o inflow(node, -1),
                       "==", self.demand)
            ELSE IF node = self.destination
              THEN Lin(<<"flow_balance_dest", node>>, inflow(node, 1) \o outflow(node, -1),
                       "==", self.demand)
            ELSE Lin(<<"flow_balance", node>>, inflow(node, 1) \o outflow(node, -1), "==", 0)]

\* Lines 121-134 without the link_activation rows: the capacity rows alone.
capacity_only_constrs(self, fv, lu) ==
    [i \in 1..Len(self.edge_keys) |->
       LET k == self.edge_keys[i]
       IN Lin(<<"capacity", k[1], k[2]>>, << <<1, fv[k]>> >>, "<=", self.edge_dict[k].capacity)]

\* Lines 121-134: flow <= capacity and flow <= capacity * used, per key.
capacity_constrs(self, fv, lu) ==
    LET ks == self.edge_keys
    IN Flat([i \in 1..Len(ks) |->
         LET cap == self.edge_dict[ks[i]].capacity
         IN << Lin(<<"capacity", ks[i][1], ks[i][2]>>, << <<1, fv[ks[i]]>> >>, "<=", cap),
               Lin(<<"link_activation", ks[i][1], ks[i][2]>>,
                   << <<1, fv[ks[i]]>>, <<-cap, lu[ks[i]]>> >>, "<=", 0) >>])

\* Lines 140-147: flow <= 0.8 * demand, per key (row times 10).
reliability_constrs(self, fv) ==
    LET ks == self.edge_keys
    IN IF self.use_reliability
       THEN [i \in 1..Len(ks) |->
              Lin(<<"reliability", ks[i][1], ks[i][2]>>, << <<10, fv[ks[i]]>> >>, "<=", 8 * self.demand)]
       ELSE <<>>

\* Lines 153-161: flow <= 0.7 * capacity, per key (row times 10).
balance_constrs(self, fv) ==
    LET ks == self.edge_keys
    IN IF self.use_balance
       THEN [i \in 1..Len(ks) |->
              Lin(<<"balance", ks[i][1], ks[i][2]>>, << <<10, fv[ks[i]]>> >>, "<=",
                  7 * self.edge_dict[ks[i]].capacity)]
       ELSE <<>>

\* Lines 167-203: cost, latency, or cost + 0.1 * latency / 100 (times 1000).
network_objective(self, fv) ==
    LET ks == self.edge_keys
        cost(w) == [i \in 1..Len(ks) |-> <<w * self.edge_dict[ks[i]].cost, fv[ks[i]]>>]
        latency(w) == [i \in 1..Len(ks) |-> <<w * self.edge_dict[ks[i]].latency, fv[ks[i]]>>]
    IN [sense |-> "min",
        terms |-> IF self.objective_type = 0 THEN cost(1)
                  ELSE IF self.objective_type = 1 THEN latency(1)
                  ELSE cost(1000) \o latency(1)]

\* build_model(): everything is added to self.model, whatever it holds already, and
\* flow_vars / link_used are pointed at the variables just created.
build_model(self) ==
    LET ks == self.edge_keys
        base == Len(self.model.vars)
        fv == [k \in Range(ks) |-> base + PosOf(ks, k)]
        lu == [k \in Range(ks) |-> base + Len(ks) + PosOf(ks, k)]
    IN [self EXCEPT
          !.flow_vars = fv,
          !.link_used = lu,
          !.model = [vars |-> self.model.vars \o network_vars(self),
                     constrs |-> self.model.constrs \o flow_balance(self, fv)
                                   \o capacity_constrs(self, fv, lu)
                                   \o reliability_constrs(self, fv) \o balance_constrs(self, fv),
                     obj |-> network_objective(self, fv)]]

\* get_status_string(): status_dict.get(self.model.Status, 'unknown')
get_status_string(st) ==
    CASE st = "OPTIMAL" -> "optimal"
      [] st = "INFEASIBLE" -> "infeasible"
      [] st = "INF_OR_UNBD" -> "inf_or_unbounded"
      [] st = "UNBOUNDED" -> "unbounded"
      [] st = "CUTOFF" -> "cutoff"
      [] st = "ITERATION_LIMIT" -> "iteration_limit"
      [] st = "NODE_LIMIT" -> "node_limit"
      [] st = "TIME_LIMIT" -> "time_limit"
      [] st = "SOLUTION_LIMIT" -> "solution_limit"
      [] st = "INTERRUPTED" -> "interrupted"
      [] st = "NUMERIC" -> "numeric"
      [] st = "SUBOPTIMAL" -> "suboptimal"
      [] OTHER -> "unknown"

\* The activity threshold "> 0.01" on the integer grid.
Active(f) == f >= 1

\* find_main_paths.dfs_path.  ks is the key order of the flow map.  The loop of one
\* call works on that call's own visited set and path list and changes them in
\* place (visited.add, path.append) before handing copies to the recursive call,
\* so a later branch of the same loop starts from what earlier branches left.
\* The test of line 304 without "j not in visited".
dfs_may_enter_revisit(flows, key, node, visited) ==
    key[1] = node /\ Active(flows[key])

\* Line 304: "i == node and j not in visited and flows[(i, j)] > 0.01".
dfs_may_enter(flows, key, node, visited) ==
    key[1] = node /\ key[2] \notin visited /\ Active(flows[key])

RECURSIVE dfs_path(_, _, _, _, _, _, _)
RECURSIVE dfs_loop(_, _, _, _, _, _, _, _)
dfs_loop(flows, ks, dest, node, k, visited, path, remaining_flow) ==
    IF k > Len(ks) THEN <<>>
    ELSE IF dfs_may_enter(flows, ks[k], node, visited)
    THEN LET j == ks[k][2]
             flow_to_use == Min2(remaining_flow, flows[ks[k]])
             visited2 == visited \cup {j}
             path2 == Append(path, j)
         IN dfs_path(flows, ks, dest, j, visited2, path2, flow_to_use)
              \o dfs_loop(flows, ks, dest, node, k + 1, visited2, path2, remaining_flow)
    ELSE dfs_loop(flows, ks, dest, node, k + 1, visited, path, remaining_flow)

dfs_path(flows, ks, dest, node, visited, path, remaining_flow) ==
    IF node = dest /\ Active(remaining_flow)
    THEN << [path |-> path, flux |-> remaining_flow] >>
    ELSE dfs_loop(flows, ks, dest, node, 1, visited, path, remaining_flow)

\* find_main_paths(flows): the first five paths the traversal emits.
find_main_paths(self, flows, ks) ==
    LET paths == dfs_path(flows, ks, self.destination, self.source, {self.source},
                          <<self.source>>, self.demand)
    IN SubSeq(paths, 1, Min2(5, Len(paths)))

\* A quotient the code computes in floating point, kept as numerator and denominator.
Quot(n, d) == [num |-> n, den |-> d]

\* "n / d" with no test of the denominator.
quotient_unguarded(n, d) == Quot(n, d)

\* "n / d if d > 0 else 0" (Solver_mariem.py lines 249 and 254, solver_nour.py line 183).
quotient_or_zero(n, d) == IF d > 0 THEN Quot(n, d) ELSE Quot(0, 1)

\* Lines 222-271: the status string, and after OPTIMAL the flows, the metrics and
\* the main paths; after any other status only a message.  (solve_time, a wall
\* clock reading, is left out.)
network_results(self, st, a) ==
    IF st = "OPTIMAL"
    THEN LET ks == self.edge_keys
             flows == [k \in Range(ks) |-> a[self.flow_vars[k]]]
             per(Val(_)) == SumSeq([i \in 1..Len(ks) |-> Val(ks[i])])
             total_cost == per(LAMBDA k : flows[k] * self.edge_dict[k].cost)
             total_latency == per(LAMBDA k : IF Active(flows[k])
                                                THEN flows[k] * self.edge_dict[k].latency ELSE 0)
             active_flows == Cardinality({k \in Range(ks) : Active(flows[k])})
             total_flow == per(LAMBDA k : flows[k])
             total_capacity == per(LAMBDA k : self.edge_dict[k].capacity)
             total_capacity_used == total_flow
         IN [status |-> get_status_string(st),
             flows |-> flows,
             total_cost |-> total_cost,
             avg_latency |-> quotient_or_zero(total_latency, total_flow),
             active_links |-> active_flows,
             total_flow |-> total_flow,
             avg_utilization |-> quotient_or_zero(total_capacity_used, total_capacity),
             total_capacity |-> total_capacity,
             total_capacity_used |-> total_capacity_used,
             main_paths |-> find_main_paths(self, flows, ks)]
    ELSE [status |-> get_status_string(st), message |-> "Aucune solution optimale"]

\* ---- inputs of NetworkOptimizer
\* Longest edge list tried (besides the three-node scenario below).
MaxEdges == 2

EdgePool ==
    { Edge(0, 1, 2, 1, 1), Edge(0, 1, 1, 2, 3), Edge(1, 2, 2, 1, 1), Edge(0, 2, 1, 3, 2),
      Edge(2, 3, 1, 0, 1), Edge(0, 1, -1, 1, 1), Edge(1, 0, 0, 1, 1) }

RECURSIVE SeqsUpTo(_, _)
SeqsUpTo(S, n) ==
    IF n = 0 THEN {<<>>}
    ELSE LET shorter == SeqsUpTo(S, n - 1)
         IN shorter \cup {Append(q, x) : q \in shorter, x \in S}

\* Keyword arguments without the two optional policies.  The policies' bounds
\* (0.8 * demand, 0.7 * capacity) are whole numbers only for the scenarios below; with
\* whole-number data the flow polytope has whole-number vertices, so enumerating
\* flows on the integer grid decides feasibility and the optimum exactly.
NetworkOptions ==
    {[objective_type |-> t, use_reliability |-> FALSE, use_balance |-> FALSE] : t \in {0, 1, 2}}

NetArgs(n, edges, demand, opt) ==
    [num_nodes |-> n, edges |-> edges, demand |-> demand, objective_type |-> opt.objective_type,
     use_reliability |-> opt.use_reliability, use_balance |-> opt.use_balance]

\* The three-node network: 0 -> 1 (capacity 10, cost 2), 1 -> 2 (capacity 5, cost 3),
\* demand 5, built with the constructor's defaults.
ThreeNodeScenario ==
    [num_nodes |-> 3, edges |-> <<Edge(0, 1, 10, 2, 1), Edge(1, 2, 5, 3, 1)>>, demand |-> 5,
     objective_type |-> 0, use_reliability |-> TRUE, use_balance |-> FALSE]

\* Two routes from 0 to 2 that can share a demand of 5 under the default policy.
TwoRouteScenario ==
    [num_nodes |-> 3, edges |-> <<Edge(0, 1, 4, 1, 1), Edge(1, 2, 4, 1, 1), Edge(0, 2, 1, 5, 1)>>,
     demand |-> 5, objective_type |-> 0, use_reliability |-> TRUE, use_balance |-> FALSE]

NetworkScenarios ==
    { ThreeNodeScenario,
      [ThreeNodeScenario EXCEPT !.use_reliability = FALSE],
      [ThreeNodeScenario EXCEPT !.use_reliability = FALSE, !.use_balance = TRUE,
                                !.edges = <<Edge(0, 1, 10, 2, 1), Edge(1, 2, 10, 3, 1)>>],
      TwoRouteScenario,
      [TwoRouteScenario EXCEPT !.objective_type = 2],
      [num_nodes |-> 2, edges |-> <<Edge(0, 1, 2, 1, 1)>>, demand |-> 0,
       objective_type |-> 0, use_reliability |-> TRUE, use_balance |-> FALSE],
      [num_nodes |-> 2, edges |-> <<Edge(1, 0, 0, 1, 1)>>, demand |-> 0,
       objective_type |-> 0, use_reliability |-> TRUE, use_balance |-> TRUE] }

NetworkInputs ==
    NetworkScenarios
      \cup {NetArgs(n, es, d, o) : n \in {2, 3}, es \in SeqsUpTo(EdgePool, MaxEdges) \ {<<>>},
                                   d \in {1, 2}, o \in NetworkOptions}

\* __init__: lines 25-51.
NetworkOptimizer_init(a) ==
    [num_nodes |-> a.num_nodes, edges |-> a.edges, demand |-> a.demand,
     objective_type |-> a.objective_type, use_reliability |-> a.use_reliability,
     use_balance |-> a.use_balance,
     source |-> 0, destination |-> a.num_nodes - 1,
     edge_keys |-> edge_dict_keys(a.edges), edge_dict |-> edge_dict_data(a.edges),
     model |-> EmptyModel, flow_vars |-> <<>>, link_used |-> <<>>]

NetworkInit ==
    /\ entry = "network"
    /\ input \in NetworkInputs
    /\ pc = "ready"
    /\ model = NetworkOptimizer_init(input)
    /\ grb = [status |-> "LOADED", hasSol |-> FALSE]
    /\ sol = <<>>
    /\ result = <<>>
    /\ outcome = "none"

\* solve(), line 211: self.build_model().
NO_build ==
    /\ entry = "network" /\ pc = "ready"
    /\ model' = build_model(model)
    /\ pc' = "built"
    /\ UNCHANGED <<entry, input, grb, sol, result, outcome>>

\* solve(), line 217: self.model.optimize().
NO_optimize ==
    /\ entry = "network" /\ pc = "built"
    /\ \E F \in {Feasible(model.model, 0)} :
         \E ans \in GRBAnswers(F # {}, F = {}) :
           /\ grb' = ans
           /\ sol' \in Incumbents(model.model, F, ans)
    /\ pc' = "optimized"
    /\ UNCHANGED <<entry, input, model, result, outcome>>

\* solve(), lines 219-271: the results dictionary.
NO_results ==
    /\ entry = "network" /\ pc = "optimized"
    /\ result' = network_results(model, grb.status, sol)
    /\ outcome' = "returned"
    /\ pc' = "done"
    /\ UNCHANGED <<entry, input, model, grb, sol>>

NetworkNext == NO_build \/ NO_optimize \/ NO_results

SpecNetwork == NetworkInit /\ [][NetworkNext]_vars

\* ---- solve() called again on the same object
\* Largest number of solve() calls on one object.
MaxSolves == 2

\* The inputs tried with repeated calls: the edge lists drawn from EdgePool.
ResolveInputs == NetworkInputs \ NetworkScenarios

ResolveInit ==
    /\ entry = "network"
    /\ input \in ResolveInputs
    /\ pc = "ready"
    /\ model = NetworkOptimizer_init(input)
    /\ grb = [status |-> "LOADED", hasSol |-> FALSE]
    /\ sol = <<>>
    /\ result = <<>>
    /\ outcome = "none"

\* A further call of solve(): the object keeps every attribute (self.model, created
\* once by line 45, among them); the model is about to change, which puts the
\* optimizer's status back to LOADED.
NO_solve_again ==
    /\ entry = "network" /\ pc = "done"
    /\ Len(model.model.vars) < MaxSolves * Len(network_vars(model))
    /\ pc' = "ready"
    /\ grb' = [status |-> "LOADED", hasSol |-> FALSE]
    /\ sol' = <<>>
    /\ result' = <<>>
    /\ outcome' = "none"
    /\ UNCHANGED <<entry, input, model>>

ResolveNext == NetworkNext \/ NO_solve_again

SpecResolve == ResolveInit /\ [][ResolveNext]_vars

\* ------------------------------------------------------------ EvacuationSolver
\* An edge of the input list: (from, to, capacity, time).
EvEdge(u, v, cap, time) == [source |-> u, dest |-> v, capacity |-> cap, time |-> time]

\* sources is a dict: a sequence of <<name, people>> pairs with distinct names.
SourceNames(inp) == {inp.sources[i][1] : i \in 1..Len(inp.sources)}

People(inp, n) == inp.sources[CHOOSE i \in 1..Len(inp.sources) : inp.sources[i][1] = n][2]

\* sum(sources.values())
total_people(inp) == SumSeq([i \in 1..Len(inp.sources) |-> inp.sources[i][2]])

\* Lines 44-47: every node named by sources, sinks or an edge.  (The set is walked
\* in first-mention order here; the order only fixes the order of the rows.)
RECURSIVE Dedup(_)
Dedup(q) ==
    IF q = <<>> THEN <<>>
    ELSE LET init == Dedup(SubSeq(q, 1, Len(q) - 1))
         IN IF q[Len(q)] \in Range(init) THEN init ELSE Append(init, q[Len(q)])

evac_nodes(inp) ==
    Dedup([i \in 1..Len(inp.sources) |-> inp.sources[i][1]] \o inp.sinks
            \o Flat([i \in 1..Len(inp.edges) |-> <<inp.edges[i].source, inp.edges[i].dest>>]))

\* Lines 57-65: x and y per entry of the edge list, t per entry of sinks, t_max.
\* Entry p of the edge list owns variables 2p-1 (x) and 2p (y).
evac_vars(inp) ==
    Flat([p \in 1..Len(inp.edges) |->
           << Var(<<"x", inp.edges[p].source, inp.edges[p].dest>>, "I", 0, inp.edges[p].capacity),
              Var(<<"y", inp.edges[p].source, inp.edges[p].dest>>, "B", 0, 1) >>])
      \o [i \in 1..Len(inp.sinks) |-> VarNoUb(<<"t", inp.sinks[i]>>, "I", 0)]
      \o << VarNoUb(<<"t_max">>, "I", 0) >>

\* The dictionaries x, y and edge_dict keep, for a pair listed twice, the last entry.
LastEntry(inp, k) ==
    CHOOSE p \in 1..Len(inp.edges) :
        Key(inp.edges[p]) = k /\ \A h \in (p + 1)..Len(inp.edges) : Key(inp.edges[h]) # k

xVar(inp, k) == 2 * LastEntry(inp, k) - 1

yVar(inp, k) == 2 * LastEntry(inp, k)

\* t[sink]: the variable of the last entry of sinks naming it.
tVar(inp, sink) ==
    2 * Len(inp.edges)
      + (CHOOSE i \in 1..Len(inp.sinks) :
            inp.sinks[i] = sink /\ \A h \in (i + 1)..Len(inp.sinks) : inp.sinks[h] # sink)

tmaxVar(inp) == 2 * Len(inp.edges) + Len(inp.sinks) + 1

\* edges_in[n] and edges_out[n]: one key per entry of the edge list, in list order.
edges_in(inp, n) ==
    Flat([p \in 1..Len(inp.edges) |-> IF inp.edges[p].dest = n THEN <<Key(inp.edges[p])>> ELSE <<>>])

edges_out(inp, n) ==
    Flat([p \in 1..Len(inp.edges) |-> IF inp.edges[p].source = n THEN <<Key(inp.edges[p])>> ELSE <<>>])

\* quicksum(x[e] for e in keys), with coefficient c
xTerms(inp, keys, c) == [i \in 1..Len(keys) |-> <<c, xVar(inp, keys[i])>>]

\* Lines 80-95.  With an empty edge list on one side the code sums to the number
\* 0; a comparison of two plain numbers is a bool, and addConstr rejects a bool.
conservation_raises(inp) ==
    \E n \in SourceNames(inp) : edges_out(inp, n) = <<>>

conservation_constrs(inp) ==
    LET ns == evac_nodes(inp)
    IN Flat([i \in 1..Len(ns) |->
         LET node == ns[i]
             out == edges_out(inp, node)
             in == edges_in(inp, node)
         IN IF node \in SourceNames(inp)
              THEN << Lin(<<"source", node>>, xTerms(inp, out, 1) \o xTerms(inp, in, -1), "<=",
                          People(inp, node)),
                      Lin(<<"min_source", node>>, xTerms(inp, out, 1), ">=", 1) >>
            ELSE IF node \in Range(inp.sinks) THEN <<>>
            ELSE << Lin(<<"conservation", node>>, xTerms(inp, out, 1) \o xTerms(inp, in, -1),
                        "==", 0) >>])

\* Lines 99-101: x <= cap * y for every key of x, cap from edge_dict.
link_x_y(inp) ==
    LET ks == edge_dict_keys(inp.edges)
    IN [i \in 1..Len(ks) |->
         Lin(<<"link", ks[i][1], ks[i][2]>>,
             << <<1, xVar(inp, ks[i])>>, <<-inp.edges[LastEntry(inp, ks[i])].capacity, yVar(inp, ks[i])>> >>,
             "<=", 0)]

\* The loop of lines 116-119 with no queue.append: nothing beyond the node's own
\* incoming edges is walked.
walk_tails_none(in, visited) == <<>>

\* Lines 116-119: the tails u of the incoming keys that are appended to the queue,
\* "if u not in visited", visited already holding the current node.
walk_tails(in, visited) ==
    Flat([i \in 1..Len(in) |-> IF in[i][1] \notin visited THEN <<in[i][1]>> ELSE <<>>])

\* Lines 108-119: the backward breadth-first walk from a sink; relevant_edges
\* collects every incoming key of every node taken from the queue.
RECURSIVE relevant_edges(_, _, _, _)
relevant_edges(inp, queue, visited, relevant) ==
    IF queue = <<>> THEN relevant
    ELSE LET current == Head(queue)
         IN IF current \in visited THEN relevant_edges(inp, Tail(queue), visited, relevant)
            ELSE LET visited2 == visited \cup {current}
                     in == edges_in(inp, current)
                     more == walk_tails(in, visited2)
                 IN relevant_edges(inp, Tail(queue) \o more, visited2, relevant \o in)

\* Lines 105-131: t[sink] >= time * y per relevant edge, t_max >= t[sink], t_max <= max_time.
time_constrs(inp) ==
    Flat([i \in 1..Len(inp.sinks) |->
           LET sink == inp.sinks[i]
               rel == relevant_edges(inp, <<sink>>, {}, <<>>)
           IN [j \in 1..Len(rel) |->
                Lin(<<"time", sink, rel[j][1], rel[j][2]>>,
                    << <<1, tVar(inp, sink)>>, <<-inp.edges[LastEntry(inp, rel[j])].time, yVar(inp, rel[j])>> >>,
                    ">=", 0)]])
      \o [i \in 1..Len(inp.sinks) |->
            Lin(<<"tmax", inp.sinks[i]>>, << <<1, tmaxVar(inp)>>, <<-1, tVar(inp, inp.sinks[i])>> >>, ">=", 0)]
      \o << Lin(<<"max_time_constraint">>, << <<1, tmaxVar(inp)>> >>, "<=", inp.max_time) >>

\* Lines 135-146: alpha * (flow into the sinks) - (1 - alpha) * t_max, maximised;
\* alpha is given in tenths and the row is taken times 10.
evac_objective(inp) ==
    [sense |-> "max",
     terms |-> Flat([i \in 1..Len(inp.sinks) |-> xTerms(inp, edges_in(inp, inp.sinks[i]), inp.alpha10)])
                 \o << <<-(10 - inp.alpha10), tmaxVar(inp)>> >>]

\* Lines 40-146: the model solve() builds.
evac_model(inp) ==
    [vars |-> evac_vars(inp),
     constrs |-> conservation_constrs(inp) \o link_x_y(inp) \o time_constrs(inp),
     obj |-> evac_objective(inp)]

\* No t can exceed max_time in a feasible point: the enumeration limit of t, t_max.
evac_hi(inp) == Max2(0, inp.max_time)

\* Lines 153-196: the solution dictionary read from the incumbent a.
evac_solution(inp, a) ==
    LET ks == edge_dict_keys(inp.edges)
        flow_values == [k \in Range(ks) |-> a[xVar(inp, k)]]
        sumOver(keys) == SumSeq([i \in 1..Len(keys) |-> flow_values[keys[i]]])
        total_flow == SumSeq([i \in 1..Len(inp.sinks) |-> sumOver(edges_in(inp, inp.sinks[i]))])
    IN [flow_values |-> flow_values,
        edge_used |-> [k \in Range(ks) |-> a[yVar(inp, k)]],
        total_flow |-> total_flow,
        total_time |-> a[tmaxVar(inp)],
        evacuated_per_source |-> [n \in SourceNames(inp) |-> sumOver(edges_out(inp, n))],
        received_per_sink |-> [n \in Range(inp.sinks) |-> sumOver(edges_in(inp, n))],
        time_per_sink |-> [n \in Range(inp.sinks) |-> a[tVar(inp, n)]],
        percentage |-> quotient_or_zero(total_flow * 100, total_people(inp)),
        total_people |-> total_people(inp),
        status |-> "optimal"]

\* Lines 151-209: what solve() returns for the optimizer's status.  Reading X
\* without an incumbent raises inside the try block.
evac_return(inp, st, a) ==
    IF st = "OPTIMAL" \/ st = "SUBOPTIMAL"
      THEN IF Len(a) > 0 THEN evac_solution(inp, a)
           ELSE [status |-> "error", message |-> "exception"]
    ELSE IF st = "INFEASIBLE"
      THEN [status |-> "infeasible", message |-> "Aucune solution realisable"]
    ELSE [status |-> "error", message |-> "Statut du solveur"]

\* ---- inputs of EvacuationSolver
\* Longest edge list tried (besides the scenarios below).
MaxEvacEdges == 2

EvacEdgePool ==
    { EvEdge("A", "H", 1, 1), EvEdge("H", "S", 1, 1), EvEdge("A", "S", 1, 2),
      EvEdge("A", "S", 2, 1), EvEdge("A", "S", -1, 1), EvEdge("S", "A", 1, 1),
      EvEdge("A", "H", 0, 1) }

EvacArgs(srcs, sinks, edges, mt) ==
    [sources |-> srcs, sinks |-> sinks, edges |-> edges, max_time |-> mt, alpha10 |-> 7]

EvacScenarios ==
    { EvacArgs(<< <<"A", 2>> >>, <<"S">>,
               <<EvEdge("A", "H", 2, 1), EvEdge("H", "S", 1, 1), EvEdge("A", "S", 1, 2)>>, 2),
      EvacArgs(<< <<"A", 1>>, <<"B", 1>> >>, <<"S", "T">>,
               <<EvEdge("A", "S", 1, 1), EvEdge("B", "T", 1, 2)>>, 2),
      EvacArgs(<< <<"A", 1>>, <<"B", 1>> >>, <<"S">>, <<EvEdge("A", "S", 1, 1)>>, 2),
      EvacArgs(<< <<"A", 100>> >>, <<"S">>,
               <<EvEdge("A", "H", 2, 1), EvEdge("H", "S", 2, 1)>>, 1),
      EvacArgs(<< <<"A", 100>> >>, <<"S">>, <<EvEdge("A", "S", 2, 2)>>, 1),
      EvacArgs(<< <<"A", 60>>, <<"B", 40>> >>, <<"S">>,
               <<EvEdge("A", "S", 1, 1), EvEdge("B", "S", 1, 3)>>, 2),
      EvacArgs(<< <<"A", 1>> >>, <<"S">>, <<EvEdge("A", "S", 3, 1), EvEdge("S", "A", 3, 1)>>, 2),
      EvacArgs(<< <<"A", 1>> >>, <<"S", "T">>, <<EvEdge("A", "S", 1, 1), EvEdge("S", "T", 1, 1)>>, 2) }

EvacInputs ==
    EvacScenarios
      \cup {EvacArgs(<< <<"A", n>> >>, <<"S">>, es, mt) :
              n \in {0, 2}, es \in SeqsUpTo(EvacEdgePool, MaxEvacEdges) \ {<<>>}, mt \in {1, 2}}

\* __init__: lines 12-13 (None is the empty tuple).
EvacInit ==
    /\ entry = "evacuation"
    /\ input \in EvacInputs
    /\ pc = "ready"
    /\ model = [model |-> <<>>, solution |-> <<>>]
    /\ grb = [status |-> "LOADED", hasSol |-> FALSE]
    /\ sol = <<>>
    /\ result = <<>>
    /\ outcome = "none"

\* solve(), lines 38-146: the model is built; an error raised on the way is caught
\* by line 211 and returned as status 'error'.
ES_build ==
    /\ entry = "evacuation" /\ pc = "ready"
    /\ IF conservation_raises(input)
       THEN /\ model' = [model EXCEPT !.model = EmptyModel]
            /\ result' = [status |-> "error", message |-> "exception"]
            /\ outcome' = "returned"
            /\ pc' = "done"
       ELSE /\ model' = [model EXCEPT !.model = evac_model(input)]
            /\ pc' = "built"
            /\ UNCHANGED <<result, outcome>>
    /\ UNCHANGED <<entry, input, grb, sol>>

\* solve(), line 149: self.model.optimize().
ES_optimize ==
    /\ entry = "evacuation" /\ pc = "built"
    /\ \E F \in {Feasible(model.model, evac_hi(input))} :
         \E ans \in GRBAnswers(F # {}, F = {}) :
           /\ grb' = ans
           /\ sol' \in Incumbents(model.model, F, ans)
    /\ pc' = "optimized"
    /\ UNCHANGED <<entry, input, model, result, outcome>>

\* solve(), lines 151-215: the returned dictionary; self.solution is assigned only
\* on the first branch.
ES_return ==
    /\ entry = "evacuation" /\ pc = "optimized"
    /\ result' = evac_return(input, grb.status, sol)
    /\ model' = IF grb.status \in {"OPTIMAL", "SUBOPTIMAL"} /\ Len(sol) > 0
                THEN [model EXCEPT !.solution = evac_solution(input, sol)]
                ELSE model
    /\ outcome' = "returned"
    /\ pc' = "done"
    /\ UNCHANGED <<entry, input, grb, sol>>

EvacNext == ES_build \/ ES_optimize \/ ES_return

SpecEvacuation == EvacInit /\ [][EvacNext]_vars

\* ---- several calls of solve on one EvacuationSolver object
\* The arguments of the calls: the scenarios, among them one whose model is
\* infeasible and one on which the build raises.
AgainInputs == EvacScenarios

\* The object after __init__; calls counts the calls of solve started so far.
AgainInit ==
    /\ entry = "evacuation"
    /\ input \in AgainInputs
    /\ pc = "ready"
    /\ model = [model |-> <<>>, solution |-> <<>>, calls |-> 1]
    /\ grb = [status |-> "LOADED", hasSol |-> FALSE]
    /\ sol = <<>>
    /\ result = <<>>
    /\ outcome = "none"

\* The caller calls solve again, with any arguments: self.model and self.solution
\* are what the last call left (lines 12-13 are not run again).
ES_solve_again ==
    /\ entry = "evacuation" /\ pc = "done"
    /\ "calls" \in DOMAIN model /\ model.calls < MaxSolves
    /\ input' \in AgainInputs
    /\ model' = [model EXCEPT !.calls = @ + 1]
    /\ pc' = "ready"
    /\ grb' = [status |-> "LOADED", hasSol |-> FALSE]
    /\ sol' = <<>>
    /\ result' = <<>>
    /\ outcome' = "none"
    /\ UNCHANGED entry

AgainNext == EvacNext \/ ES_solve_again

SpecEvacAgain == AgainInit /\ [][AgainNext]_vars

\* ------------------------------------------------------------ optimize_military_schedule
\* missions is a dict: a sequence of mission records with distinct ids; a record
\* without a "deadline" field takes the horizon (line 77).  req is a sequence of
\* <<resource, quantity>> pairs, resources a sequence of <<resource, available>>.
deadlineOf(inp, m) == IF "deadline" \in DOMAIN m THEN m.deadline ELSE inp.horizon

\* missions[m]["req"].get(r, 0)
reqOf(m, r) ==
    IF \E i \in 1..Len(m.req) : m.req[i][1] = r
    THEN m.req[CHOOSE i \in 1..Len(m.req) : m.req[i][1] = r][2]
    ELSE 0

\* Line 50: the number of start variables of a mission, max(0, horizon - dur + 1).
nStarts(inp, m) == Max2(0, inp.horizon - m.dur + 1)

\* The variable x[m][t] of mission number i (t from 0): variables are created
\* mission by mission, start by start (lines 47-51).
xStart(inp, i, t) == SumSeq([h \in 1..(i - 1) |-> nStarts(inp, inp.missions[h])]) + t + 1

military_vars(inp) ==
    Flat([i \in 1..Len(inp.missions) |->
           [t1 \in 1..nStarts(inp, inp.missions[i]) |-> Var(<<"x", inp.missions[i].id, t1 - 1>>, "B", 0, 1)]])

\* The rows of lines 59-69 with the starts drawn from range(0, ...): a mission
\* started at or before t counts at t whatever its duration.
res_constrs_from_zero(inp) ==
    Flat([ri \in 1..Len(inp.resources) |->
      [t1 \in 1..Max2(0, inp.horizon) |->
        LET t == t1 - 1
            r == inp.resources[ri][1]
        IN Lin(<<"res", r, t>>,
               Flat([i \in 1..Len(inp.missions) |->
                      LET m == inp.missions[i]
                          lo == 0
                          hi == Min2(t + 1, inp.horizon - m.dur + 1)
                      IN [k \in 1..Max2(0, hi - lo) |-> <<reqOf(m, r), xStart(inp, i, lo + k - 1)>>]]),
               "<=", inp.resources[ri][2])]])

\* Lines 59-69: per resource and instant t, the draw of the starts s in
\* range(max(0, t - dur + 1), min(t + 1, horizon - dur + 1)).
res_constrs(inp) ==
    Flat([ri \in 1..Len(inp.resources) |->
      [t1 \in 1..Max2(0, inp.horizon) |->
        LET t == t1 - 1
            r == inp.resources[ri][1]
        IN Lin(<<"res", r, t>>,
               Flat([i \in 1..Len(inp.missions) |->
                      LET m == inp.missions[i]
                          lo == Max2(0, t - m.dur + 1)
                          hi == Min2(t + 1, inp.horizon - m.dur + 1)
                      IN [k \in 1..Max2(0, hi - lo) |-> <<reqOf(m, r), xStart(inp, i, lo + k - 1)>>]]),
               "<=", inp.resources[ri][2])]])

\* The rows of lines 75-81 with the test "t > deadline", the duration left out.
dead_constrs_start_only(inp) ==
    Flat([i \in 1..Len(inp.missions) |->
      Flat([t1 \in 1..nStarts(inp, inp.missions[i]) |->
        IF (t1 - 1) > deadlineOf(inp, inp.missions[i])
        THEN << Lin(<<"dead", inp.missions[i].id, t1 - 1>>, << <<1, xStart(inp, i, t1 - 1)>> >>, "==", 0) >>
        ELSE <<>>])])

\* Lines 75-81: x[m][t] == 0 when t + dur > deadline.
dead_constrs(inp) ==
    Flat([i \in 1..Len(inp.missions) |->
      Flat([t1 \in 1..nStarts(inp, inp.missions[i]) |->
        IF (t1 - 1) + inp.missions[i].dur > deadlineOf(inp, inp.missions[i])
        THEN << Lin(<<"dead", inp.missions[i].id, t1 - 1>>, << <<1, xStart(inp, i, t1 - 1)>> >>, "==", 0) >>
        ELSE <<>>])])

\* Lines 87-91: at most one start per mission.
once_constrs(inp) ==
    [i \in 1..Len(inp.missions) |->
      Lin(<<"once", inp.missions[i].id>>,
          [t1 \in 1..nStarts(inp, inp.missions[i]) |-> <<1, xStart(inp, i, t1 - 1)>>], "<=", 1)]

\* Lines 97-103: maximise the priorities of the starts chosen.
military_objective(inp) ==
    [sense |-> "max",
     terms |-> Flat([i \in 1..Len(inp.missions) |->
                 [t1 \in 1..nStarts(inp, inp.missions[i]) |->
                    <<inp.missions[i].priority, xStart(inp, i, t1 - 1)>>]])]

military_model(inp) ==
    [vars |-> military_vars(inp),
     constrs |-> res_constrs(inp) \o dead_constrs(inp) \o once_constrs(inp),
     obj |-> military_objective(inp)]

\* Line 111: the statuses after which a schedule is read; after any other status
\* the function raises RuntimeError.
schedule_read(st) == st \in {"OPTIMAL", "TIME_LIMIT", "SUBOPTIMAL"}

\* Lines 119-126: schedule[m] is None (the empty tuple) or the last start whose
\* variable is set (as <<t>>); the objective value is ObjVal, or 0.0 without a solution.
military_schedule(inp, m, a) ==
    [i \in 1..Len(inp.missions) |->
       LET on == {t \in 0..(nStarts(inp, inp.missions[i]) - 1) : a[xStart(inp, i, t)] = 1}
       IN IF on = {} THEN <<>> ELSE << CHOOSE t \in on : \A u \in on : u <= t >>]

\* Lines 111-128.  Reading X of a variable without an incumbent raises; with no
\* variable at all nothing is read.
military_return(inp, m, st, hasSol, a) ==
    IF ~schedule_read(st) THEN [outcome |-> "raised", result |-> <<>>]
    ELSE IF ~hasSol /\ Len(m.vars) > 0 THEN [outcome |-> "raised", result |-> <<>>]
    ELSE [outcome |-> "returned",
          result |-> [schedule |-> IF hasSol THEN military_schedule(inp, m, a)
                                   ELSE [i \in 1..Len(inp.missions) |-> <<>>],
                      objective_value |-> IF hasSol THEN ObjVal(m, a) ELSE 0]]

\* ---- inputs of optimize_military_schedule
\* Largest number of missions tried.
MaxMissions == 2

MissionPool ==
    { [id |-> "M1", dur |-> 1, priority |-> 3, deadline |-> 2, req |-> << <<"soldats", 1>> >>],
      [id |-> "M2", dur |-> 2, priority |-> 2, req |-> << <<"soldats", 1>>, <<"drones", 1>> >>],
      [id |-> "M3", dur |-> 4, priority |-> 1, deadline |-> 1, req |-> <<>>],
      [id |-> "M4", dur |-> 0, priority |-> 1, req |-> << <<"soldats", 2>> >>],
      [id |-> "M5", dur |-> 2, priority |-> 5, deadline |-> 1, req |-> <<>>] }

MilitaryInputs ==
    {[missions |-> ms, resources |-> rs, horizon |-> h] :
        ms \in {q \in SeqsUpTo(MissionPool, MaxMissions) :
                   \A i, j \in 1..Len(q) : i # j => q[i].id # q[j].id},
        rs \in { << <<"soldats", 1>> >>, << <<"soldats", 2>>, <<"drones", 0>> >>,
                 << <<"soldats", 2>>, <<"drones", 1>> >> },
        h \in {2, 3}}

MilitaryInit ==
    /\ entry = "military"
    /\ input \in MilitaryInputs
    /\ pc = "ready"
    /\ model = EmptyModel
    /\ grb = [status |-> "LOADED", hasSol |-> FALSE]
    /\ sol = <<>>
    /\ result = <<>>
    /\ outcome = "none"

\* Lines 39-103: variables, constraints and objective.
MS_build ==
    /\ entry = "military" /\ pc = "ready"
    /\ model' = military_model(input)
    /\ pc' = "built"
    /\ UNCHANGED <<entry, input, grb, sol, result, outcome>>

\* Line 108: model.optimize().
MS_optimize ==
    /\ entry = "military" /\ pc = "built"
    /\ \E F \in {Feasible(model, 0)} :
         \E ans \in GRBAnswers(F # {}, F = {}) :
           /\ grb' = ans
           /\ sol' \in Incumbents(model, F, ans)
    /\ pc' = "optimized"
    /\ UNCHANGED <<entry, input, model, result, outcome>>

\* Lines 111-128: raise, or return (schedule, objective_value).
MS_return ==
    /\ entry = "military" /\ pc = "optimized"
    /\ LET r == military_return(input, model, grb.status, grb.hasSol, sol)
       IN result' = r.result /\ outcome' = r.outcome
    /\ pc' = "done"
    /\ UNCHANGED <<entry, input, model, grb, sol>>

MilitaryNext == MS_build \/ MS_optimize \/ MS_return

SpecMilitary == MilitaryInit /\ [][MilitaryNext]_vars

\* ------------------------------------------------------------ the four entry points
FlowInit == NetworkInit \/ EvacInit

FlowNext == NetworkNext \/ EvacNext

\* The two flow-network builders.
SpecFlow == FlowInit /\ [][FlowNext]_vars

Init == HiringInit \/ NetworkInit \/ EvacInit \/ MilitaryInit

Next == HiringNext \/ NetworkNext \/ EvacNext \/ MilitaryNext

\* One call of one of the four solve entry points.
Spec == Init /\ [][Next]_vars

\* ------------------------------------------------------------ claims: flow networks
\* The edge list of a flow-network input is malformed: a (from, to) pair listed
\* twice, a negative capacity, or (NetworkOptimizer) a node outside 0..num_nodes-1.
Malformed(inp) ==
    \/ \E i, j \in 1..Len(inp.edges) : i < j /\ Key(inp.edges[i]) = Key(inp.edges[j])
    \/ \E i \in 1..Len(inp.edges) : inp.edges[i].capacity < 0
    \/ /\ "num_nodes" \in DOMAIN inp
       /\ \E i \in 1..Len(inp.edges) :
            {inp.edges[i].source, inp.edges[i].dest} \ (0..(inp.num_nodes - 1)) # {}

\* C5: a malformed edge list makes the builder fail before optimize() is called.
C5_MalformedFailsFast ==
    (entry \in {"network", "evacuation"} /\ Malformed(input)) => grb.status = "LOADED"

\* C8: on the three-node network with default options and the cost objective, a
\* solver run that ends (optimal or infeasible) yields status optimal, flow 5 on
\* both edges, total cost 25 and the single path 0 -> 1 -> 2 with flow 5.
C8_ThreeNodeScenario ==
    (entry = "network" /\ input = ThreeNodeScenario /\ pc = "done"
       /\ grb.status \in {"OPTIMAL", "INFEASIBLE", "INF_OR_UNBD"}) =>
        /\ result.status = "optimal"
        /\ result.flows = (<<0, 1>> :> 5 @@ <<1, 2>> :> 5)
        /\ result.total_cost = 25
        /\ result.main_paths = << [path |-> <<0, 1, 2>>, flux |-> 5] >>

\* The model the builder of the call in progress has emitted, the assignments
\* satisfying its rows, and the flow, indicator and capacity of an edge key.
FeasibleNow == Feasible(model.model, IF entry = "network" THEN 0 ELSE evac_hi(input))

FlowKeys == Range(edge_dict_keys(input.edges))

FlowOf(a, k) == IF entry = "network" THEN a[model.flow_vars[k]] ELSE a[xVar(input, k)]

UsedOf(a, k) == IF entry = "network" THEN a[model.link_used[k]] ELSE a[yVar(input, k)]

CapOf(k) == input.edges[LastEntry(input, k)].capacity

InFlow(a, n) == SumSeq([i \in 1..Len(edge_dict_keys(input.edges)) |->
                  LET k == edge_dict_keys(input.edges)[i]
                  IN IF k[2] = n THEN FlowOf(a, k) ELSE 0])

OutFlow(a, n) == SumSeq([i \in 1..Len(edge_dict_keys(input.edges)) |->
                   LET k == edge_dict_keys(input.edges)[i]
                   IN IF k[1] = n THEN FlowOf(a, k) ELSE 0])

\* The nodes some edge refers to that are neither a source nor a sink/destination.
Intermediate ==
    ({k[1] : k \in FlowKeys} \cup {k[2] : k \in FlowKeys})
      \ (IF entry = "network" THEN {0, input.num_nodes - 1}
         ELSE SourceNames(input) \cup Range(input.sinks))

\* C9: in every assignment satisfying the rows a flow builder emitted, every
\* edge's flow lies between 0 and the capacity of the edge, and an edge whose
\* used indicator is 0 carries no flow.
C9_CapacityAndLink ==
    (entry \in {"network", "evacuation"} /\ pc = "built") =>
        \A a \in FeasibleNow : \A k \in FlowKeys :
            /\ 0 <= FlowOf(a, k)
            /\ FlowOf(a, k) <= CapOf(k)
            /\ (UsedOf(a, k) = 0 => FlowOf(a, k) = 0)

\* C9 witness: a built network with an edge of capacity 0 and a satisfying
\* assignment in which one edge carries flow and an unused edge carries none.
C9_Witness ==
    /\ entry = "network" /\ pc = "built"
    /\ \E k \in FlowKeys : CapOf(k) = 0
    /\ \E a \in FeasibleNow :
         /\ \E k \in FlowKeys : FlowOf(a, k) >= 1 /\ UsedOf(a, k) = 1
         /\ \E k \in FlowKeys : UsedOf(a, k) = 0 /\ FlowOf(a, k) = 0

\* C10: in every assignment satisfying the rows a flow builder emitted, inflow
\* equals outflow at every node an edge refers to that is neither a source nor a
\* sink/destination.
C10_Conservation ==
    (entry \in {"network", "evacuation"} /\ pc = "built") =>
        \A a \in FeasibleNow : \A n \in Intermediate : InFlow(a, n) = OutFlow(a, n)

\* ------------------------------------------------------------ claims: the four entry points
\* C3: after any status other than optimal, the finished call has returned (not
\* raised) a result that carries a status field.
C3_StatusNeverRaises ==
    (pc = "done" /\ grb.status \notin {"LOADED", "OPTIMAL"}) =>
        outcome = "returned" /\ "status" \in DOMAIN result

\* C4: after time-limit or suboptimal with an incumbent, the network, evacuation
\* and hiring calls return status time_limit or suboptimal together with the
\* flows or the assignment read from the incumbent.
C4_IncumbentReported ==
    (entry # "military" /\ pc = "done" /\ grb.status \in {"TIME_LIMIT", "SUBOPTIMAL"} /\ grb.hasSol) =>
        /\ outcome = "returned"
        /\ result.status \in {"time_limit", "suboptimal"}
        /\ \/ entry = "network" /\ "flows" \in DOMAIN result
           \/ entry = "evacuation" /\ "flow_values" \in DOMAIN result
           \/ entry = "hiring" /\ "hired" \in DOMAIN result

\* ------------------------------------------------------------ find_main_paths, step by step
\* The traversal of lines 291-314 as a machine: model holds the call stack of
\* dfs_path (the innermost call last), result the list "paths".  A frame holds
\* the call's arguments and k, the position of its for loop over flows.keys():
\* 0 before the test of line 297, 1..Len(ks) inside the loop.
MaxKeys == 3
MaxDepth == 5

PathNodes == 0..2
PairPool == {p \in PathNodes \X PathNodes : p[1] # p[2]}

KeySeqs ==
    UNION {{ks \in [1..n -> PairPool] : \A i, j \in 1..n : i # j => ks[i] # ks[j]} : n \in 1..MaxKeys}

DiamondKeys == << <<0, 1>>, <<1, 3>>, <<0, 2>>, <<2, 3>> >>

PathInputs ==
    UNION {{[flows |-> f, ks |-> ks, source |-> 0, destination |-> d, demand |-> dem]
              : f \in [Range(ks) -> {0, 2}], d \in {0, 2}, dem \in {0, 2}} : ks \in KeySeqs}
    \cup {[flows |-> f, ks |-> DiamondKeys, source |-> 0, destination |-> 3, demand |-> 2]
            : f \in [Range(DiamondKeys) -> {1, 2}]}

Frame(node, visited, path, remaining_flow) ==
    [node |-> node, visited |-> visited, path |-> path, remaining_flow |-> remaining_flow, k |-> 0]

PathsInit ==
    /\ entry = "paths"
    /\ input \in PathInputs
    /\ pc = "ready"
    /\ model = <<>>
    /\ grb = [status |-> "OPTIMAL", hasSol |-> TRUE]
    /\ sol = <<>>
    /\ result = <<>>
    /\ outcome = "none"

Top == model[Len(model)]

Caller == SubSeq(model, 1, Len(model) - 1)

\* Lines 293 and 310-311: paths = [], the first call of dfs_path.
FP_call ==
    /\ entry = "paths" /\ pc = "ready"
    /\ model' = << Frame(input.source, {input.source}, <<input.source>>, input.demand) >>
    /\ result' = <<>>
    /\ pc' = "dfs"
    /\ UNCHANGED <<entry, input, grb, sol, outcome>>

\* Lines 297-301: the destination reached with flow left; the path is recorded
\* and the call returns.
FP_emit ==
    /\ entry = "paths" /\ pc = "dfs" /\ model # <<>> /\ Top.k = 0
    /\ Top.node = input.destination /\ Active(Top.remaining_flow)
    /\ result' = Append(result, [path |-> Top.path, flux |-> Top.remaining_flow])
    /\ model' = Caller
    /\ UNCHANGED <<entry, pc, input, grb, sol, outcome>>

\* Lines 297 and 303: otherwise the loop over the keys starts.
FP_loop ==
    /\ entry = "paths" /\ pc = "dfs" /\ model # <<>> /\ Top.k = 0
    /\ ~(Top.node = input.destination /\ Active(Top.remaining_flow))
    /\ model' = Caller \o << [Top EXCEPT !.k = 1] >>
    /\ UNCHANGED <<entry, pc, input, grb, sol, result, outcome>>

\* Lines 304-308: the key leaves this node towards an unvisited node with flow:
\* visited and path of this call grow in place, the recursive call gets copies.
FP_descend ==
    /\ entry = "paths" /\ pc = "dfs" /\ model # <<>> /\ Top.k \in 1..Len(input.ks)
    /\ dfs_may_enter(input.flows, input.ks[Top.k], Top.node, Top.visited)
    /\ Len(model) < MaxDepth
    /\ LET key == input.ks[Top.k]
           j == key[2]
           flow_to_use == Min2(Top.remaining_flow, input.flows[key])
           visited2 == Top.visited \cup {j}
           path2 == Append(Top.path, j)
       IN model' = Caller \o << [Top EXCEPT !.k = @ + 1, !.visited = visited2, !.path = path2],
                                Frame(j, visited2, path2, flow_to_use) >>
    /\ UNCHANGED <<entry, pc, input, grb, sol, result, outcome>>

\* Lines 303-304: the key is passed over.
FP_skip ==
    /\ entry = "paths" /\ pc = "dfs" /\ model # <<>> /\ Top.k \in 1..Len(input.ks)
    /\ ~dfs_may_enter(input.flows, input.ks[Top.k], Top.node, Top.visited)
    /\ model' = Caller \o << [Top EXCEPT !.k = @ + 1] >>
    /\ UNCHANGED <<entry, pc, input, grb, sol, result, outcome>>

\* The loop of line 303 is exhausted: the call returns.
FP_return ==
    /\ entry = "paths" /\ pc = "dfs" /\ model # <<>> /\ Top.k > Len(input.ks)
    /\ model' = Caller
    /\ UNCHANGED <<entry, pc, input, grb, sol, result, outcome>>

\* Line 314: return paths[:5].
FP_finish ==
    /\ entry = "paths" /\ pc = "dfs" /\ model = <<>>
    /\ result' = SubSeq(result, 1, Min2(5, Len(result)))
    /\ outcome' = "returned"
    /\ pc' = "done"
    /\ UNCHANGED <<entry, input, model, grb, sol>>

PathsNext == FP_call \/ FP_emit \/ FP_loop \/ FP_descend \/ FP_skip \/ FP_return \/ FP_finish

\* find_main_paths on its own, for any flow map.
SpecPaths == PathsInit /\ [][PathsNext]_vars

\* A started call keeps running.
SpecPathsLive == SpecPaths /\ WF_vars(PathsNext)

\* ------------------------------------------------------------ claims: find_main_paths
\* The machine and the recursive definition used by solve agree.
PathsAgree ==
    (entry = "paths" /\ pc = "done") =>
        result = find_main_paths(input, input.flows, input.ks)

\* C15: every returned path starts at the source, ends at the destination, has
\* no node twice, and each consecutive pair (u, v) is a key of the flow map with
\* flow > 0.01; a node is passed over only when it lies on the call's path.
C15_PathsAreWalks ==
    /\ (entry = "paths" /\ pc = "done") =>
          \A n \in 1..Len(result) :
             LET p == result[n].path
             IN /\ p[1] = input.source /\ p[Len(p)] = input.destination
                /\ \A i, j \in 1..Len(p) : i # j => p[i] # p[j]
                /\ \A i \in 1..(Len(p) - 1) :
                      /\ <<p[i], p[i + 1]>> \in Range(input.ks)
                      /\ Active(input.flows[<<p[i], p[i + 1]>>])
    /\ (entry = "paths" /\ pc = "dfs") =>
          \A n \in 1..Len(model) : model[n].visited = Range(model[n].path)

\* C16: the traversal of any flow map ends, and never nests deeper than the
\* number of nodes it can visit.
C16_Terminates ==
    /\ <>(pc = "done")
    /\ [](Len(model) <= Cardinality({input.source} \cup {k[2] : k \in Range(input.ks)}))

\* C16 witness: a finished traversal of a map whose active flows form a cycle
\* through the source and a cycle through the destination.
C16_Witness ==
    /\ entry = "paths" /\ pc = "done"
    /\ \E a, b \in PathNodes :
         /\ {<<input.source, a>>, <<a, input.source>>,
             <<input.destination, b>>, <<b, input.destination>>} \subseteq Range(input.ks)
         /\ \A k \in Range(input.ks) : Active(input.flows[k])

\* ------------------------------------------------------------ the backward walk, step by step
\* Lines 105-119 of solver_nour.py as a machine: model.n is the position of the
\* loop over sinks, model.queue, model.visited and model.relevant the three
\* collections of the walk of that sink; result collects relevant_edges per sink.
WalkGraphs ==
    { EvacArgs(<< <<"A", 2>> >>, <<"S">>,
               <<EvEdge("A", "H", 1, 1), EvEdge("H", "A", 1, 1), EvEdge("H", "S", 1, 1)>>, 2),
      EvacArgs(<< <<"A", 2>> >>, <<"S">>,
               <<EvEdge("A", "S", 1, 1), EvEdge("S", "S", 1, 1), EvEdge("S", "H", 1, 1)>>, 2),
      EvacArgs(<< <<"A", 2>> >>, <<"S", "T">>,
               <<EvEdge("A", "S", 1, 1), EvEdge("S", "T", 1, 1), EvEdge("T", "S", 1, 1),
                 EvEdge("B", "H", 1, 1)>>, 2),
      EvacArgs(<< <<"A", 2>> >>, <<"S", "T">>,
               <<EvEdge("A", "H", 1, 1), EvEdge("H", "G", 1, 1), EvEdge("G", "A", 1, 1),
                 EvEdge("G", "T", 1, 1), EvEdge("A", "H", 2, 2)>>, 2) }

WalkInputs == EvacInputs \cup WalkGraphs

WalkInit ==
    /\ entry = "walk"
    /\ input \in WalkInputs
    /\ pc = "ready"
    /\ model = [n |-> 1, queue |-> <<>>, visited |-> {}, relevant |-> <<>>]
    /\ grb = [status |-> "LOADED", hasSol |-> FALSE]
    /\ sol = <<>>
    /\ result = <<>>
    /\ outcome = "none"

\* Lines 105-110: the next sink; relevant_edges = [], visited = set(), queue = [sink].
BW_begin ==
    /\ entry = "walk" /\ pc = "ready" /\ model.n <= Len(input.sinks)
    /\ model' = [model EXCEPT !.queue = <<input.sinks[model.n]>>, !.visited = {}, !.relevant = <<>>]
    /\ pc' = "walk"
    /\ UNCHANGED <<entry, input, grb, sol, result, outcome>>

\* Lines 111-114: a node taken from the queue that was visited before.
BW_skip ==
    /\ entry = "walk" /\ pc = "walk" /\ model.queue # <<>>
    /\ Head(model.queue) \in model.visited
    /\ model' = [model EXCEPT !.queue = Tail(@)]
    /\ UNCHANGED <<entry, pc, input, grb, sol, result, outcome>>

\* Lines 111-119: a new node: its incoming keys are collected and their unvisited
\* tails queued.
BW_visit ==
    /\ entry = "walk" /\ pc = "walk" /\ model.queue # <<>>
    /\ Head(model.queue) \notin model.visited
    /\ LET current == Head(model.queue)
           visited2 == model.visited \cup {current}
           in == edges_in(input, current)
       IN model' = [model EXCEPT !.queue = Tail(@) \o walk_tails(in, visited2),
                                 !.visited = visited2,
                                 !.relevant = @ \o in]
    /\ UNCHANGED <<entry, pc, input, grb, sol, result, outcome>>

\* Lines 111 and 121-124: the queue is empty; the rows of this sink are written.
BW_end ==
    /\ entry = "walk" /\ pc = "walk" /\ model.queue = <<>>
    /\ result' = Append(result, model.relevant)
    /\ model' = [model EXCEPT !.n = @ + 1]
    /\ pc' = "ready"
    /\ UNCHANGED <<entry, input, grb, sol, outcome>>

\* Line 105: no sink is left.
BW_finish ==
    /\ entry = "walk" /\ pc = "ready" /\ model.n > Len(input.sinks)
    /\ outcome' = "returned"
    /\ pc' = "done"
    /\ UNCHANGED <<entry, input, model, grb, sol, result>>

WalkNext == BW_begin \/ BW_skip \/ BW_visit \/ BW_end \/ BW_finish

\* The walks of one call of solve; a started walk keeps running.
SpecWalk == WalkInit /\ [][WalkNext]_vars /\ WF_vars(WalkNext)

\* ------------------------------------------------------------ claims: metrics
\* The sum of the values of a function with a finite domain.
RECURSIVE SumFn(_)
SumFn(f) ==
    IF DOMAIN f = {} THEN 0
    ELSE LET k == CHOOSE x \in DOMAIN f : TRUE
         IN f[k] + SumFn([x \in DOMAIN f \ {k} |-> f[x]])

\* C14: a result with metrics was returned, not raised; avg_latency is 0 when the
\* total flow is 0 and otherwise the latency of the active flows over the total
\* flow; avg_utilization is 0 when the total capacity is 0 and otherwise the total
\* flow over the total capacity; the evacuation percentage is 0 when the sources
\* hold nobody and otherwise 100 * total_flow / total_people.
C14_ZeroDenominators ==
    /\ (entry = "network" /\ pc = "done" /\ grb.status = "OPTIMAL") =>
          /\ outcome = "returned" /\ {"flows", "avg_latency", "avg_utilization"} \subseteq DOMAIN result
          /\ LET tf == SumFn(result.flows)
                 tc == SumFn([k \in FlowKeys |-> CapOf(k)])
                 tl == SumFn([k \in FlowKeys |->
                                IF result.flows[k] >= 1
                                THEN result.flows[k] * input.edges[LastEntry(input, k)].latency
                                ELSE 0])
             IN /\ result.avg_latency = IF tf = 0 THEN Quot(0, 1) ELSE Quot(tl, tf)
                /\ result.avg_utilization = IF tc = 0 THEN Quot(0, 1) ELSE Quot(tf, tc)
    /\ (entry = "evacuation" /\ pc = "done" /\ grb.status = "OPTIMAL") =>
          /\ outcome = "returned" /\ "percentage" \in DOMAIN result
          /\ result.percentage = IF total_people(input) = 0 THEN Quot(0, 1)
                                 ELSE Quot(100 * result.total_flow, total_people(input))

\* C14 witness: an optimal network result with total flow 0 over total capacity 0.
C14_Witness ==
    /\ entry = "network" /\ pc = "done" /\ grb.status = "OPTIMAL"
    /\ SumFn(result.flows) = 0 /\ result.total_capacity = 0
    /\ result.avg_latency = Quot(0, 1) /\ result.avg_utilization = Quot(0, 1)

\* ------------------------------------------------------------ claims: repeated solve
\* C13: whatever the number of solve() calls made on the object, the model that is
\* optimized holds exactly the variables and constraints of a single build.
C13_IndependentModel ==
    (entry = "network" /\ pc \in {"built", "optimized", "done"}) =>
        LET single == build_model(NetworkOptimizer_init(input)).model
        IN /\ Len(model.model.vars) = Len(single.vars)
           /\ Len(model.model.constrs) = Len(single.constrs)
           /\ model.model.vars = single.vars /\ model.model.constrs = single.constrs

\* ------------------------------------------------------------ claims: optimize_military_schedule
\* The (mission, start) pairs for which a start variable exists and the mission,
\* started then, is running at instant t.
RunningAt(inp, t) ==
    {q \in (1..Len(inp.missions)) \X (0..Max2(0, inp.horizon)) :
        /\ q[2] <= inp.horizon - inp.missions[q[1]].dur
        /\ q[2] <= t /\ t < q[2] + inp.missions[q[1]].dur}

\* The row named name of the built model.
RowNamed(name) == model.constrs[CHOOSE n \in 1..Len(model.constrs) : model.constrs[n].name = name]

\* The missions of a returned schedule that are running at instant t.
ActiveAt(t) ==
    {i \in 1..Len(input.missions) :
        /\ result.schedule[i] # <<>>
        /\ result.schedule[i][1] <= t /\ t < result.schedule[i][1] + input.missions[i].dur}

\* C17: for every resource r and instant t of the horizon there is one row
\* res_r_t; its terms are, once each and with the mission's requirement as
\* coefficient, the start variables of the pairs running at t, and its bound is the
\* availability; in a returned schedule the requirements of the missions running
\* at t add up to at most the availability.
C17_ResourceRows ==
    /\ (entry = "military" /\ pc # "ready") =>
         \A ri \in 1..Len(input.resources), t \in 0..(input.horizon - 1) :
            LET r == input.resources[ri][1]
                rows == {n \in 1..Len(model.constrs) : model.constrs[n].name = <<"res", r, t>>}
                row == RowNamed(<<"res", r, t>>)
            IN /\ Cardinality(rows) = 1
               /\ row.rel = "<=" /\ row.rhs = input.resources[ri][2]
               /\ Len(row.terms) = Cardinality(RunningAt(input, t))
               /\ \A q \in RunningAt(input, t) :
                     \E n \in 1..Len(row.terms) :
                        row.terms[n] = <<reqOf(input.missions[q[1]], r), xStart(input, q[1], q[2])>>
    /\ (entry = "military" /\ pc = "done" /\ outcome = "returned") =>
         \A ri \in 1..Len(input.resources), t \in 0..(input.horizon - 1) :
            SumFn([i \in ActiveAt(t) |-> reqOf(input.missions[i], input.resources[ri][1])])
               <= input.resources[ri][2]

\* C17 witness: a returned schedule in which two missions run at the same instant.
C17_Witness ==
    /\ entry = "military" /\ pc = "done" /\ outcome = "returned"
    /\ \E t \in 0..(input.horizon - 1) : Cardinality(ActiveAt(t)) = 2

\* C18: in a returned schedule a mission maps to None or to one start t with
\* 0 <= t <= horizon - dur and t + dur <= deadline; a mission longer than the
\* horizon or than its deadline maps to None; the objective value is the sum of
\* the priorities of the missions that start.
C18_ScheduleWithinWindows ==
    (entry = "military" /\ pc = "done" /\ outcome = "returned") =>
       /\ DOMAIN result.schedule = 1..Len(input.missions)
       /\ \A i \in 1..Len(input.missions) :
            LET m == input.missions[i]
                s == result.schedule[i]
            IN /\ Len(s) <= 1
               /\ s # <<>> => /\ 0 <= s[1] /\ s[1] <= input.horizon - m.dur
                              /\ s[1] + m.dur <= deadlineOf(input, m)
               /\ (m.dur > input.horizon \/ m.dur > deadlineOf(input, m)) => s = <<>>
       /\ result.objective_value =
            SumFn([i \in {j \in 1..Len(input.missions) : result.schedule[j] # <<>>}
                     |-> input.missions[i].priority])

\* C18 witness: a returned schedule that starts one mission and leaves out a
\* mission no longer than the horizon but longer than its deadline.
C18_Witness ==
    /\ entry = "military" /\ pc = "done" /\ outcome = "returned"
    /\ \E i, j \in 1..Len(input.missions) :
         /\ result.schedule[i] # <<>> /\ result.objective_value > 0
         /\ input.missions[j].dur <= input.horizon
         /\ input.missions[j].dur > deadlineOf(input, input.missions[j])
         /\ result.schedule[j] = <<>>

\* ------------------------------------------------------------ claims: EvacuationSolver
\* The least travel time (sum of edge times) of a path of at most k edges from node
\* n to the sink, -1 when there is none.
RECURSIVE PathTime(_, _, _, _)
PathTime(inp, n, sink, k) ==
    IF n = sink THEN 0
    ELSE IF k = 0 THEN -1
    ELSE LET ks == edge_dict_keys(inp.edges)
             via == {inp.edges[LastEntry(inp, ks[i])].time + PathTime(inp, ks[i][2], sink, k - 1) :
                       i \in {j \in 1..Len(ks) : ks[j][1] = n
                                                   /\ PathTime(inp, ks[j][2], sink, k - 1) >= 0}}
         IN IF via = {} THEN -1 ELSE CHOOSE t \in via : \A u \in via : t <= u

\* The travel time of the shortest source-to-sink path, -1 when no source reaches the sink.
ShortestTime(inp) ==
    LET ts == {PathTime(inp, n, inp.sinks[1], Len(inp.edges)) : n \in SourceNames(inp)} \ {-1}
    IN IF ts = {} THEN -1 ELSE CHOOSE t \in ts : \A u \in ts : t <= u

\* C12: with total supply 100 and a single sink, when max_time is below the travel
\* time of the shortest source-to-sink path a completed solve returns 'infeasible'.
C12_TooLittleTime ==
    (entry = "evacuation" /\ pc = "done" /\ total_people(input) = 100 /\ Len(input.sinks) = 1
       /\ ShortestTime(input) >= 0 /\ input.max_time < ShortestTime(input)
       /\ grb.status \in {"OPTIMAL", "INFEASIBLE"}) =>
        result.status = "infeasible"

\* The nodes from which node n is reached along edges of the list, n included:
\* R is closed under "the tail of an edge whose head is in R".
RECURSIVE ReachesFrom(_, _)
ReachesFrom(inp, R) ==
    LET more == {inp.edges[p].source : p \in {h \in 1..Len(inp.edges) : inp.edges[h].dest \in R}}
    IN IF more \subseteq R THEN R ELSE ReachesFrom(inp, R \cup more)

\* The edges whose head is the sink or can reach the sink.
EdgesTowards(inp, sink) ==
    {Key(inp.edges[p]) : p \in {h \in 1..Len(inp.edges) : inp.edges[h].dest \in ReachesFrom(inp, {sink})}}

\* C19: the walk of every sink ends; the edges it collects are exactly the edges
\* whose head is the sink or can reach the sink; and these are the edges of the
\* rows time_<sink>_<u>_<v> of the model.
C19_WalkCollectsReaching ==
    /\ <>(pc = "done")
    /\ [](pc = "done" =>
           /\ Len(result) = Len(input.sinks)
           /\ \A i \in 1..Len(input.sinks) :
                /\ Range(result[i]) = EdgesTowards(input, input.sinks[i])
                /\ {<<c.name[3], c.name[4]>> :
                      c \in {d \in Range(time_constrs(input)) :
                               d.name[1] = "time" /\ d.name[2] = input.sinks[i]}}
                     = EdgesTowards(input, input.sinks[i]))

\* C19 witness: a finished walk over a graph with a directed cycle off the sink,
\* whose edges all lead to the sink.
C19_Witness ==
    /\ entry = "walk" /\ pc = "done"
    /\ \E p, q \in 1..Len(input.edges) :
         /\ input.edges[p].source = input.edges[q].dest
         /\ input.edges[q].source = input.edges[p].dest
         /\ input.edges[p].source # input.edges[p].dest
         /\ input.sinks[1] \notin {input.edges[p].source, input.edges[p].dest}
         /\ {Key(input.edges[p]), Key(input.edges[q])} \subseteq Range(result[1])

\* C20: in every result that carries an assignment the flow entering the sinks
\* is at most the number of people in the sources, and the percentage at most 100.
C20_FlowWithinPeople ==
    (entry = "evacuation" /\ pc = "done" /\ "total_flow" \in DOMAIN result) =>
        /\ result.total_flow <= total_people(input)
        /\ result.percentage.num <= 100 * result.percentage.den

\* C21: when a call of solve has returned, the solution attribute is the result
\* that call returned; after a call that returned 'infeasible' or 'error' it does
\* not hold an assignment.
C21_SolutionIsLastResult ==
    (entry = "evacuation" /\ pc = "done") =>
        /\ model.solution = result
        /\ result.status \in {"infeasible", "error"} => "flow_values" \notin DOMAIN model.solution

====
